---- MODULE Spec2Model ----
\* Diagram compilation (RobustTikZRenderer) and its orchestration (Pipeline)
\* of the question-paper generator, as a state machine.
\*
\* A diagram source is a sequence of lexical tokens; every token stands for
\* the characters of the same spelling, so a source is the string obtained by
\* concatenating its tokens.
EXTENDS Integers, Sequences, FiniteSets, TLC

\* ---------------------------------------------------------------- bounds

\* longest diagram source, in tokens, that the source-space specification draws
MaxSrcLen == 3
\* most Question Instances in one Pattern's question set
MaxQ == 2
\* last value of the millisecond clock
MaxTime == 1
\* failed diagrams per run of the Pipeline
MaxRenderFailures == 1
\* largest magnitude kept of the brace counter of fix_single_tikz_field
MaxBraceCount == 2
\* most records in one response text
MaxRecords == 2
\* most Patterns of one run whose rendering loop is followed call by call
MaxPoolPatterns == 2
\* most Question Instances per Pattern in that loop
MaxPoolQ == 5

\* ------------------------------------------------------- program constants

\* RobustTikZRenderer.__init__: max_retries default
DefaultMaxRetries == 3
\* ThreadPoolExecutor(max_workers=4)
max_workers == 4
\* minimum length of a diagram source after strip()
MinTikzLen == 5
\* _validate_final_png: 10MB limit, in MB
MaxPngMB == 10

\* ------------------------------------------------------------ diagram source

BS == "\\"
SP == " "
Draw == "\\draw"
Input == "\\input"
InputUpper == "\\INPUT"
UsePackage == "\\usepackage"
UsePackageUpper == "\\USEPACKAGE"

Tokens == {BS, SP, Draw, Input, InputUpper, UsePackage, "{", "}", "["}

\* number of characters of a token
Width(t) ==
    CASE t = Draw -> 5
      [] t = Input -> 6
      [] t = InputUpper -> 6
      [] t \in {UsePackage, UsePackageUpper} -> 11
      [] t \in {"unknown", "Unknown"} -> 7
      [] t \in {"n/a", "N/A"} -> 3
      [] t = "Find" -> 4
      [] OTHER -> 1

\* the token starts with a backslash character
StartsWithBackslash(t) ==
    t \in {BS, Draw, Input, InputUpper, UsePackage, UsePackageUpper}

RECURSIVE StrLen(_)
StrLen(s) == IF s = <<>> THEN 0 ELSE Width(Head(s)) + StrLen(Tail(s))

RECURSIVE Count(_, _)
Count(s, t) ==
    IF s = <<>> THEN 0
    ELSE (IF Head(s) = t THEN 1 ELSE 0) + Count(Tail(s), t)

\* str.strip(): leading and trailing whitespace removed
RECURSIVE LStrip(_)
LStrip(s) == IF s # <<>> /\ Head(s) = SP THEN LStrip(Tail(s)) ELSE s

RECURSIVE RStrip(_)
RStrip(s) ==
    IF s # <<>> /\ s[Len(s)] = SP THEN RStrip(SubSeq(s, 1, Len(s) - 1)) ELSE s

Strip(s) == RStrip(LStrip(s))

\* str.lower(), token by token
LowerTok(t) ==
    CASE t = InputUpper -> Input
      [] t = UsePackageUpper -> UsePackage
      [] t = "Unknown" -> "unknown"
      [] t = "N/A" -> "n/a"
      [] OTHER -> t

Lower(s) == [k \in 1..Len(s) |-> LowerTok(s[k])]

\* pattern in code: the directive occurs in the string
Contains(s, t) == \E k \in 1..Len(s) : s[k] = t

\* str.replace('\\\\', '\\'): every non-overlapping pair of backslash
\* characters, left to right, becomes one; a lone backslash token followed by
\* a token that starts with a backslash forms such a pair
RECURSIVE ReplaceDoubleBackslash(_)
ReplaceDoubleBackslash(s) ==
    IF s = <<>> THEN <<>>
    ELSE IF Head(s) = BS /\ Len(s) >= 2 /\ StartsWithBackslash(s[2])
         THEN <<s[2]>> \o ReplaceDoubleBackslash(SubSeq(s, 3, Len(s)))
         ELSE <<Head(s)>> \o ReplaceDoubleBackslash(Tail(s))

\* RobustTikZRenderer._clean_tikz_code
clean_tikz_code(s) == ReplaceDoubleBackslash(Strip(s))

\* forbidden_patterns of RobustTikZRenderer._validate_tikz_code
RendererForbidden == {Input}

\* forbidden_patterns of RobustTikZValidator.validate
ValidatorForbidden == {Input, UsePackage}

\* the drawing keywords of RobustTikZValidator.validate
DrawingCommands == {Draw}

TooShort(s) == s = <<>> \/ StrLen(Strip(s)) < MinTikzLen

\* RobustTikZRenderer._validate_tikz_code: the message, or "ok"
validate_tikz_code(s) ==
    IF TooShort(s) THEN "TikZ code is empty or too short"
    ELSE IF Count(s, "{") # Count(s, "}") THEN "Mismatched braces in TikZ code"
    ELSE IF \E p \in RendererForbidden : Contains(Lower(s), p)
         THEN "Forbidden pattern detected"
    ELSE "ok"

\* RobustTikZValidator.validate: the message, or "ok"
ValidatorNoDenyList(s) ==
    IF TooShort(s) THEN "TikZ code is empty or too short"
    ELSE IF Count(s, "{") # Count(s, "}") THEN "Mismatched braces in TikZ code"
    ELSE IF Count(s, "[") # Count(s, "]") THEN "Mismatched brackets in TikZ code"
    ELSE IF ~ \E c \in DrawingCommands : Contains(Lower(s), c)
         THEN "No TikZ drawing commands found"
    ELSE "ok"

validate(s) ==
    IF TooShort(s) THEN "TikZ code is empty or too short"
    ELSE IF Count(s, "{") # Count(s, "}") THEN "Mismatched braces in TikZ code"
    ELSE IF Count(s, "[") # Count(s, "]") THEN "Mismatched brackets in TikZ code"
    ELSE IF \E p \in ValidatorForbidden : Contains(Lower(s), p)
         THEN "Forbidden pattern detected"
    ELSE IF ~ \E c \in DrawingCommands : Contains(Lower(s), c)
         THEN "No TikZ drawing commands found"
    ELSE "ok"

\* RobustTikZRenderer._generate_clean_tikz_code: (cleaned_tikz_code, errors)
generate_clean_tikz_code(s) ==
    IF TooShort(s)
    THEN [code |-> s, errors |-> <<"TikZ code cleaning failed">>]
    ELSE LET cleaned == clean_tikz_code(s)
             v == validate_tikz_code(cleaned)
         IN  [code |-> cleaned,
              errors |-> IF v = "ok" THEN <<>>
                         ELSE <<"TikZ validation warning: " \o v>>]

\* ------------------------------------------------------------------ state

VARIABLES
    questions,          \* question_set.questions: the tikz_code of each instance
    mode,               \* "direct": render called by itself; "sequential" /
                        \* "parallel": Pipeline._render_diagrams
    max_retries,        \* RobustTikZRenderer.max_retries
    keep_intermediate,  \* RobustTikZRenderer.keep_intermediate
    clock,              \* int(time.time() * 1000)
    scratch,            \* the files of RobustTikZRenderer.temp_dir
    call,               \* per instance: the frame of _render_single_diagram / render
    completed,          \* instance positions in the order their futures completed
    rendered,           \* the list _render_diagrams builds
    orch,               \* position of _render_diagrams
    run,                \* the frame of Pipeline.run
    llm,                \* the frame of process_llm_response
    val,                \* the frame of a call of a validator
    pool                \* Pipeline.run from its rendering loop on, in parallel mode

\* the variables of the renderer and of _render_diagrams
render_vars == <<questions, mode, max_retries, keep_intermediate, clock,
                 scratch, call, completed, rendered, orch>>

vars == <<pool, val, run, llm, questions, mode, max_retries, keep_intermediate, clock,
          scratch, call, completed, rendered, orch>>

\* no Pipeline.run and no process_llm_response in progress
IdleRun == [pc |-> "idle"]

IdleLlm == [pc |-> "idle"]

\* no validator called
IdleVal == [pc |-> "idle"]

\* no rendering loop of Pipeline.run followed
IdlePool == [pc |-> "idle"]

Inst == 1..Len(questions)

\* None for a file path
NoFile == <<>>

\* no image at output_png yet
NoPng == [exists |-> FALSE, mb |-> 0, width |-> 0, mode |-> "none", src |-> <<>>]

\* None in the rendered list
NoneResult == [none |-> TRUE]

\* The frame of one call before it starts. tectonic_runs, raster_runs,
\* single_calls, render_calls, compile_log, created and unlink_failed record
\* what the call did (subprocess.run calls, rasterizer calls, calls of
\* _render_single_diagram and render, the outcome of each compiler attempt,
\* the scratch files it created, whether a deletion failed). start_time and
\* execution_time are in milliseconds.
NewCall ==
    [pc |-> "new", cleaned |-> <<>>, attempt |-> 0,
     tex_file |-> NoFile, pdf_file |-> NoFile,
     success |-> FALSE, errors |-> <<>>, warnings |-> <<>>,
     steps_completed |-> <<>>, intermediate_files |-> <<>>,
     png |-> NoPng, result |-> NoneResult,
     tectonic_runs |-> 0, raster_runs |-> 0, single_calls |-> 0,
     render_calls |-> 0, compile_log |-> <<>>, created |-> {},
     unlink_failed |-> FALSE, sleeps |-> <<>>,
     start_time |-> 0, execution_time |-> 0]

\* time.sleep(base * (attempt + 1)) after the pass `attempt` of the loop of a
\* stage, when another pass follows: the stage, the number of the failed
\* attempt and the seconds slept, in tenths; base 0 stands for no call of
\* time.sleep
Slept(c, stage, base, retries) ==
    IF base > 0 /\ c.attempt < retries - 1
    THEN Append(c.sleeps, <<stage, c.attempt + 1, base * (c.attempt + 1)>>)
    ELSE c.sleeps

\* ------------------------------------------------------------ scratch files

File(name, ext, empty, src, by) ==
    [name |-> name, ext |-> ext, empty |-> empty, src |-> src, by |-> by]

Exists(name, ext) == \E f \in scratch : f.name = name /\ f.ext = ext

TheFile(name, ext) == CHOOSE f \in scratch : f.name = name /\ f.ext = ext

\* open(path, 'w') and write: a file of that name is replaced
WriteFile(S, f) == {g \in S : ~(g.name = f.name /\ g.ext = f.ext)} \cup {f}

\* Path.unlink
Unlink(S, name, ext) == {g \in S : ~(g.name = name /\ g.ext = ext)}

\* --------------------------------------------------- RobustTikZRenderer.render

\* the accepted colour modes of _validate_final_png
AcceptedModes == {"RGB", "RGBA", "L"}

Frame(i, c) == call' = [call EXCEPT ![i] = c]

\* render, lines 155-157: except Exception appends "Pipeline failed: ..." and
\* falls through to the finally block; with the re-raising variant the
\* exception leaves render
pipeline_failed_reraise(c, msg) == [c EXCEPT !.pc = "raised"]

pipeline_failed(c, msg) ==
    [c EXCEPT !.errors = Append(@, "Pipeline failed: " \o msg), !.pc = "finally"]

\* a direct caller invokes tikz_renderer.render(tikz_code, output_png)
DirectCall(i) ==
    /\ mode = "direct"
    /\ call[i].pc = "new"
    /\ Frame(i, [call[i] EXCEPT !.pc = "render"])
    /\ UNCHANGED <<pool, val, run, llm, questions, mode, max_retries, keep_intermediate, clock,
                   scratch, completed, rendered, orch>>

\* render, lines 95-114: render_metadata is initialised and step 1 runs; its
\* errors are added to warnings
RenderBegin(i) ==
    /\ call[i].pc = "render"
    /\ LET g == generate_clean_tikz_code(questions[i])
       IN  Frame(i, [call[i] EXCEPT
               !.render_calls = @ + 1,
               !.start_time = clock,
               !.cleaned = g.code,
               !.steps_completed = Append(@, "tikz_code_generation"),
               !.warnings = @ \o g.errors,
               !.attempt = 0,
               !.pc = "write_tex"])
    /\ UNCHANGED <<pool, val, run, llm, questions, mode, max_retries, keep_intermediate, clock,
                   scratch, completed, rendered, orch>>

\* One pass of the loop of _write_standalone_tex_file, then render lines
\* 118-123 when the loop ends. The stage's errors are appended as they occur
\* (render extends its list with them when the stage returns).
\*   "ok"          the file is written and verified
\*   "open_error"  open() raises, no file is created
\*   "write_error" open() creates the file, the write or the check fails
WriteTexAttempt(i, Outs) ==
    /\ call[i].pc = "write_tex"
    /\ \E o \in Outs :
        LET c == call[i]
            name == <<clock, c.attempt>>
            last == c.attempt + 1 >= max_retries
            failed == [c EXCEPT !.errors = Append(@, "TEX file creation"),
                                !.attempt = @ + 1,
                                !.sleeps = Slept(c, "write_tex", 1, max_retries),
                                !.created = IF o = "write_error"
                                            THEN @ \cup {<<name, "tex">>} ELSE @]
        IN
        /\ scratch' =
             CASE o = "ok" -> WriteFile(scratch, File(name, "tex", FALSE, c.cleaned, i))
               [] o = "write_error" -> WriteFile(scratch, File(name, "tex", TRUE, <<>>, i))
               [] OTHER -> scratch
        /\ Frame(i,
             IF o = "ok"
             THEN [c EXCEPT !.tex_file = name,
                            !.steps_completed = Append(@, "tex_file_creation"),
                            !.intermediate_files = Append(@, <<"tex", name>>),
                            !.created = @ \cup {<<name, "tex">>},
                            !.attempt = 0,
                            !.pc = "compile"]
             ELSE IF ~last THEN failed
             ELSE pipeline_failed(
                    [failed EXCEPT
                        !.steps_completed = Append(@, "tex_file_creation"),
                        !.intermediate_files = Append(@, <<"tex", NoFile>>)],
                    "Failed to create TEX file"))
    /\ UNCHANGED <<pool, val, run, llm, questions, mode, max_retries, keep_intermediate, clock,
                   completed, rendered, orch>>

\* the message _compile_with_tectonic records for a failed attempt
CompileError(o) ==
    CASE o = "nonzero" -> "Tectonic failed"
      [] o = "timeout" -> "Tectonic timeout"
      [] o = "missing" -> "Tectonic completed but PDF not created"
      [] o = "empty" -> "PDF created but empty"
      [] OTHER -> "Tectonic execution failed"

\* the base of the delay _compile_with_tectonic takes after a failed
\* attempt, in tenths of a second: 0.2 after a non-zero exit, 1.0 after a
\* timeout, 0.1 after another exception, and no delay (continue) after a
\* missing or an empty artifact
CompileDelay(o) ==
    CASE o = "nonzero" -> 2
      [] o = "timeout" -> 10
      [] o = "exec_error" -> 1
      [] OTHER -> 0

\* the attempts _compile_with_tectonic may make: range(self.max_retries)
CompileRetriesOneLess == max_retries - 1

CompileRetries == max_retries

\* a zero-length artifact is accepted as the compiled document
EmptyPdfAccepted(o) == o \in {"ok", "empty"}

\* _compile_with_tectonic, lines 284-309: the attempt yields the document
CompileSucceeded(o) == o = "ok"

\* One pass of the loop of _compile_with_tectonic, then render lines 127-133
\* when the loop ends. An existing artifact of that name is unlinked, the
\* compiler runs on the embedded document found under tex_file's name.
\*   "nonzero"    exit code not zero        "timeout"  TimeoutExpired
\*   "missing"    exit zero, no artifact    "empty"    exit zero, empty artifact
\*   "exec_error" subprocess.run raises     "ok"       exit zero, artifact
CompileAttempt(i, Outs) ==
    /\ call[i].pc = "compile"
    /\ \E o \in Outs :
        LET c == call[i]
            name == c.tex_file
            cleared == Unlink(scratch, name, "pdf")
            readable == Exists(name, "tex") /\ ~TheFile(name, "tex").empty
            ran == [c EXCEPT !.tectonic_runs = @ + 1,
                             !.compile_log = Append(@, o)]
            failed == [ran EXCEPT !.errors = Append(@, CompileError(o)),
                                  !.attempt = @ + 1,
                                  !.sleeps = Slept(c, "compile", CompileDelay(o),
                                                   max_retries)]
            last == c.attempt + 1 >= CompileRetries
        IN
        /\ o = "ok" => readable
        /\ scratch' =
             IF o = "ok" \/ (o = "empty" /\ CompileSucceeded(o))
             THEN WriteFile(cleared,
                            File(name, "pdf", o = "empty",
                                 IF readable THEN TheFile(name, "tex").src ELSE <<>>, i))
             ELSE cleared
        /\ Frame(i,
             IF CompileSucceeded(o)
             THEN [ran EXCEPT !.pdf_file = name,
                              !.steps_completed = Append(@, "tectonic_compilation"),
                              !.intermediate_files = Append(@, <<"pdf", name>>),
                              !.created = @ \cup {<<name, "pdf">>},
                              !.attempt = 0,
                              !.pc = "raster"]
             ELSE IF ~last THEN failed
             ELSE pipeline_failed(
                    [failed EXCEPT
                        !.steps_completed = Append(@, "tectonic_compilation")],
                    "Tectonic compilation failed"))
    /\ UNCHANGED <<pool, val, run, llm, questions, mode, max_retries, keep_intermediate, clock,
                   completed, rendered, orch>>

\* the images the rasterizer may leave at output_png: size in MB, width in
\* pixels as PIL reports it on re-opening, colour mode
PngImages ==
    [exists : {TRUE}, mb : {1, MaxPngMB + 1}, width : {0, 100},
     mode : {"RGB", "P"}, src : {<<>>}]

GoodPngImages == {p \in PngImages : p.mb = 1 /\ p.mode = "RGB"}

\* the attempts _convert_to_png_with_pypdfium2 may make:
\* range(self.max_retries)
RasterRetriesOneMore == max_retries + 1

RasterRetries == max_retries

\* One pass of the loop of _convert_to_png_with_pypdfium2, then render lines
\* 137-141 when the loop ends.
\*   "open_error" PdfDocument raises    "save_error" render or save raises
\*   "ok"         the image is saved and is not empty
RasterAttempt(i, Outs, Pngs) ==
    /\ call[i].pc = "raster"
    /\ \E o \in Outs, p \in Pngs :
        LET c == call[i]
            readable == Exists(c.pdf_file, "pdf") /\ ~TheFile(c.pdf_file, "pdf").empty
            ran == [c EXCEPT !.raster_runs = @ + 1]
            failed == [ran EXCEPT
                          !.errors = Append(@, IF o = "open_error"
                                               THEN "Failed to open PDF"
                                               ELSE "Failed to save PNG"),
                          !.attempt = @ + 1,
                          !.sleeps = Slept(c, "raster", 1, max_retries)]
            last == c.attempt + 1 >= RasterRetries
        IN
        /\ o = "ok" => readable
        /\ o # "ok" => p = CHOOSE q \in Pngs : TRUE
        /\ Frame(i,
             IF o = "ok"
             THEN [ran EXCEPT
                      !.png = [p EXCEPT !.src = TheFile(c.pdf_file, "pdf").src],
                      !.steps_completed = Append(@, "png_conversion"),
                      !.attempt = 0,
                      !.pc = "png_validate"]
             ELSE IF ~last THEN failed
             ELSE pipeline_failed(
                    [failed EXCEPT !.steps_completed = Append(@, "png_conversion")],
                    "PDF to PNG conversion failed"))
    /\ UNCHANGED <<pool, val, run, llm, questions, mode, max_retries, keep_intermediate, clock,
                   scratch, completed, rendered, orch>>

\* _validate_final_png: (is_valid, errors)
validate_final_png(p) ==
    LET large == IF p.mb > MaxPngMB THEN <<"PNG file too large">> ELSE <<>>
    IN  IF ~p.exists
        THEN [valid |-> FALSE, errors |-> <<"PNG file does not exist">>]
        ELSE IF p.width = 0
        THEN [valid |-> FALSE,
              errors |-> large \o <<"Invalid image dimensions">>]
        ELSE [valid |-> TRUE,
              errors |-> large \o (IF p.mode \notin AcceptedModes
                                   THEN <<"Unexpected image mode">> ELSE <<>>)]

\* render, lines 144-153
ValidatePng(i) ==
    /\ call[i].pc = "png_validate"
    /\ LET c == call[i]
           v == validate_final_png(c.png)
           checked == [c EXCEPT !.steps_completed = Append(@, "png_validation"),
                                !.errors = @ \o v.errors]
       IN  Frame(i, IF v.valid
                    THEN [checked EXCEPT !.success = TRUE, !.pc = "finally"]
                    ELSE pipeline_failed(checked, "Final PNG validation failed"))
    /\ UNCHANGED <<pool, val, run, llm, questions, mode, max_retries, keep_intermediate, clock,
                   scratch, completed, rendered, orch>>

\* RenderedDiagram(...); error_message is None or the joined messages;
\* render_time as lines 280-288 of pipeline.py set it
RenderedDiagram(tikz_code, png_path, success, error_message) ==
    [none |-> FALSE, tikz_code |-> tikz_code, png_path |-> png_path,
     render_time |-> 0, success |-> success, error_message |-> error_message]

NoneMessage == [is_none |-> TRUE, text |-> <<>>]

Message(parts) == [is_none |-> FALSE, text |-> parts]

\* "" as png_path; the path of instance i's image is i
NoPath == 0

\* _cleanup_intermediate_files: the files left after unlinking every listed
\* file that exists, except those whose unlink raises (logged and skipped)
RECURSIVE cleanup_intermediate_files(_, _, _)
cleanup_intermediate_files(S, files, failing) ==
    IF files = <<>> THEN S
    ELSE LET type == Head(files)[1]
             name == Head(files)[2]
         IN  cleanup_intermediate_files(
                 IF name # NoFile /\ type \notin failing
                 THEN Unlink(S, name, type) ELSE S,
                 Tail(files), failing)

\* the time slept by the call, in milliseconds
RECURSIVE TotalSlept(_)
TotalSlept(sleeps) ==
    IF sleeps = <<>> THEN 0 ELSE 100 * Head(sleeps)[3] + TotalSlept(Tail(sleeps))

\* render, line 165: time.time() - start_time, the advance of the clock and
\* the time slept between attempts
Elapsed(c) == (clock - c.start_time) + TotalSlept(c.sleeps)

\* the dictionary render returns (lines 96-105), with the keys the frame keeps
render_metadata(c) ==
    [success |-> c.success, steps_completed |-> c.steps_completed,
     errors |-> c.errors, warnings |-> c.warnings,
     execution_time |-> c.execution_time,
     intermediate_files |-> c.intermediate_files]

\* dict.get(key, default)
Get(d, key, default) == IF key \in DOMAIN d THEN d[key] ELSE default

\* _render_single_diagram with error_message always the joined errors, None
\* never
ReturnValueAlwaysMessage(i, c) ==
    IF mode = "direct"
    THEN [none |-> FALSE, success |-> c.success, errors |-> c.errors,
          warnings |-> c.warnings, steps_completed |-> c.steps_completed]
    ELSE [RenderedDiagram(questions[i], i, c.success, Message(c.errors))
             EXCEPT !.render_time = Get(render_metadata(c), "render_time", 0)]

\* what the caller of render receives: render_metadata to a direct caller,
\* the RenderedDiagram of _render_single_diagram (lines 295-302) in a Pipeline
ReturnValue(i, c) ==
    IF mode = "direct"
    THEN [none |-> FALSE, success |-> c.success, errors |-> c.errors,
          warnings |-> c.warnings, steps_completed |-> c.steps_completed]
    ELSE [RenderedDiagram(questions[i], i, c.success,
                          IF c.success THEN NoneMessage ELSE Message(c.errors))
             EXCEPT !.render_time = Get(render_metadata(c), "render_time", 0)]

\* the future of instance i completes
Complete(i) == IF mode = "parallel" THEN Append(completed, i) ELSE completed

\* render, lines 159-174, and the return of _render_single_diagram: the
\* finally block deletes the intermediate files unless keep_intermediate;
\* failing is the set of file types whose unlink raises
Finally(i, Fails) ==
    /\ call[i].pc = "finally"
    /\ \E failing \in Fails :
        LET c == call[i]
            files == c.intermediate_files
            present == {files[k][1] : k \in {n \in 1..Len(files) :
                                               Exists(files[n][2], files[n][1])}}
        IN
        /\ failing \subseteq present
        /\ keep_intermediate => failing = {}
        /\ scratch' = IF keep_intermediate THEN scratch
                      ELSE cleanup_intermediate_files(scratch, c.intermediate_files, failing)
        /\ Frame(i, [c EXCEPT !.unlink_failed = failing # {},
                              !.execution_time = Elapsed(c),
                              !.result = ReturnValue(i, [c EXCEPT
                                             !.execution_time = Elapsed(c)]),
                              !.pc = "done"])
    /\ completed' = Complete(i)
    /\ UNCHANGED <<pool, val, run, llm, questions, mode, max_retries, keep_intermediate, clock,
                   rendered, orch>>

\* ------------------------------------------------------------------ Pipeline

\* _render_single_diagram, lines 275-293: the validator runs first; a source
\* it rejects yields a failed RenderedDiagram without a call of render
render_single_diagram(i) ==
    /\ call[i].pc = "entered"
    /\ LET c == [call[i] EXCEPT !.single_calls = @ + 1]
           v == validate(questions[i])
       IN  IF v # "ok"
           THEN /\ Frame(i, [c EXCEPT
                        !.result = RenderedDiagram(questions[i], NoPath, FALSE,
                                                   Message(<<v>>)),
                        !.pc = "done"])
                /\ completed' = Complete(i)
           ELSE /\ Frame(i, [c EXCEPT !.pc = "render"])
                /\ UNCHANGED completed
    /\ UNCHANGED <<pool, val, run, llm, questions, mode, max_retries, keep_intermediate, clock,
                   scratch, rendered, orch>>

\* _render_diagrams_sequential: the loop calls _render_single_diagram for the
\* next question
SeqCall(i) ==
    /\ mode = "sequential"
    /\ orch = "running"
    /\ i = Len(rendered) + 1
    /\ call[i].pc = "new"
    /\ Frame(i, [call[i] EXCEPT !.pc = "entered"])
    /\ UNCHANGED <<pool, val, run, llm, questions, mode, max_retries, keep_intermediate, clock,
                   scratch, completed, rendered, orch>>

\* _render_diagrams_sequential: rendered.append(diagram); the list is
\* returned after the last question
SeqAppend(i) ==
    /\ mode = "sequential"
    /\ orch = "running"
    /\ i = Len(rendered) + 1
    /\ call[i].pc = "done"
    /\ rendered' = Append(rendered, call[i].result)
    /\ orch' = IF i = Len(questions) THEN "returned" ELSE orch
    /\ UNCHANGED <<pool, val, run, llm, questions, mode, max_retries, keep_intermediate, clock,
                   scratch, call, completed>>

\* _render_diagrams_parallel, lines 255-260: executor.submit for the next
\* question, in question order
Submit(i) ==
    /\ mode = "parallel"
    /\ orch = "running"
    /\ call[i].pc = "new"
    /\ \A j \in 1..(i - 1) : call[j].pc # "new"
    /\ Frame(i, [call[i] EXCEPT !.pc = "queued"])
    /\ UNCHANGED <<pool, val, run, llm, questions, mode, max_retries, keep_intermediate, clock,
                   scratch, completed, rendered, orch>>

\* the calls a pool thread is running
Running == {j \in Inst : call[j].pc \notin {"new", "queued", "done", "raised"}}

\* ThreadPoolExecutor: a free thread of the pool takes the oldest queued call
WorkerPick(i) ==
    /\ call[i].pc = "queued"
    /\ \A j \in 1..(i - 1) : call[j].pc # "queued"
    /\ Cardinality(Running) < max_workers
    /\ Frame(i, [call[i] EXCEPT !.pc = "entered"])
    /\ UNCHANGED <<pool, val, run, llm, questions, mode, max_retries, keep_intermediate, clock,
                   scratch, completed, rendered, orch>>

\* the loop over as_completed stores the results in the order the futures
\* are yielded
CollectInCompletionOrder(i) ==
    /\ mode = "parallel"
    /\ orch = "running"
    /\ \A j \in Inst : call[j].pc # "new"
    /\ call[i].pc = "done"
    /\ LET n == Cardinality({k \in Inst : rendered[k] # NoneResult})
       IN  /\ n < Len(completed)
           /\ i = completed[n + 1]
           /\ rendered' = [rendered EXCEPT ![n + 1] = call[i].result]
    /\ UNCHANGED <<pool, val, run, llm, questions, mode, max_retries, keep_intermediate, clock,
                   scratch, call, completed, orch>>

\* a failed compile is submitted a second time instead of being stored
CollectResubmitFailed(i) ==
    /\ mode = "parallel"
    /\ orch = "running"
    /\ \A j \in Inst : call[j].pc # "new"
    /\ call[i].pc = "done"
    /\ rendered[i] = NoneResult
    /\ IF ~call[i].result.success /\ call[i].single_calls < 2
       THEN /\ Frame(i, [call[i] EXCEPT !.pc = "queued"])
            /\ UNCHANGED rendered
       ELSE /\ rendered' = [rendered EXCEPT ![i] = call[i].result]
            /\ UNCHANGED call
    /\ UNCHANGED <<pool, val, run, llm, questions, mode, max_retries, keep_intermediate, clock,
                   scratch, completed, orch>>

\* _render_diagrams_parallel, lines 262-264: as_completed yields a finished
\* future, idx = futures[future], rendered[idx] = future.result()
Collect(i) ==
    /\ mode = "parallel"
    /\ orch = "running"
    /\ \A j \in Inst : call[j].pc # "new"
    /\ call[i].pc = "done"
    /\ rendered[i] = NoneResult
    /\ rendered' = [rendered EXCEPT ![i] = call[i].result]
    /\ UNCHANGED <<pool, val, run, llm, questions, mode, max_retries, keep_intermediate, clock,
                   scratch, call, completed, orch>>

\* _render_diagrams_parallel, line 266: every future was yielded, the pool
\* has shut down, the list is returned
ParReturn ==
    /\ mode = "parallel"
    /\ orch = "running"
    /\ \A j \in Inst : call[j].pc = "done" /\ rendered[j] # NoneResult
    /\ orch' = "returned"
    /\ UNCHANGED <<pool, val, run, llm, questions, mode, max_retries, keep_intermediate, clock,
                   scratch, call, completed, rendered>>

\* the millisecond clock advances
Tick ==
    /\ clock < MaxTime
    /\ clock' = clock + 1
    /\ UNCHANGED <<pool, val, run, llm, questions, mode, max_retries, keep_intermediate, scratch,
                   call, completed, rendered, orch>>

\* ------------------------------------------------------------ specifications

RECURSIVE SeqsUpTo(_, _)
SeqsUpTo(S, n) ==
    IF n = 0 THEN {<<>>}
    ELSE LET shorter == SeqsUpTo(S, n - 1)
         IN  shorter \cup {Append(s, t) : s \in {x \in shorter : Len(x) = n - 1}, t \in S}

\* a well-formed drawing, one with an unmatched brace, one with a file
\* inclusion, one that is too short
GoodSource == <<Draw>>
UnbalancedSource == <<Draw, "{">>
DeniedSource == <<Draw, Input>>
ShortSource == <<"{", "}">>

SampleSources == {GoodSource, UnbalancedSource, DeniedSource, ShortSource}

\* ------------------------------------------------------------- Pipeline.run

\* config.py
QUESTIONS_PER_PATTERN == 10

\* run, line 91: the requested count is overwritten
ForcedNumPatterns == 10

\* A topic or a pattern name is the set of the words of the code's substring
\* tests that occur in its lower-cased text.
Topics ==
    {{"coordinate", "geometry"}, {"quadratic", "equation"}, {"equation"},
     {"trigon"}, {"circle"}, {}}

\* the template tables of _get_topic_specific_patterns: per name, the words
\* of _generate_diverse_image_questions' tests occurring in it
GeometryTemplates ==
    <<{"distance"}, {"midpoint"}, {"slope"}, {"line equation"}, {"circle"},
      {}, {}, {}, {"distance"}, {}>>

QuadraticTemplates ==
    <<{"quadratic", "factoring"}, {"quadratic", "quadratic formula"},
      {"vertex"}, {"discriminant"}, {}, {"quadratic"}, {"quadratic"}, {},
      {"quadratic"}, {"quadratic"}>>

TrigonometryTemplates ==
    <<{"right triangle"}, {"sine", "cosine"}, {"circle", "unit circle"}, {},
      {"sine"}, {"sine", "cosine"}, {}, {}, {}, {}>>

GenericTemplates == <<{}, {}, {}, {}, {}, {}, {}, {}, {}, {}>>

get_topic_specific_patterns(topic) ==
    IF "geometry" \in topic \/ "coordinate" \in topic THEN GeometryTemplates
    ELSE IF "quadratic" \in topic \/ "equation" \in topic THEN QuadraticTemplates
    ELSE IF "trigon" \in topic THEN TrigonometryTemplates
    ELSE GenericTemplates

Min(a, b) == IF a < b THEN a ELSE b

\* PatternGenerator.generate: pattern_templates[:num_patterns], each name
\* formatted with the topic
PatternGenerator_generate_one_short(topic, num_patterns) ==
    LET pattern_templates == get_topic_specific_patterns(topic)
    IN  [i \in 1..Min(num_patterns - 1, Len(pattern_templates)) |->
            [pattern_id |-> i - 1,
             pattern_name |-> pattern_templates[i] \cup topic]]

PatternGenerator_generate(topic, num_patterns) ==
    LET pattern_templates == get_topic_specific_patterns(topic)
    IN  [i \in 1..Min(num_patterns, Len(pattern_templates)) |->
            [pattern_id |-> i - 1,
             pattern_name |-> pattern_templates[i] \cup topic]]

\* the methods _generate_*_questions that QuestionGenerator defines
DefinedGenerators ==
    {"distance_formula", "midpoint", "quadratic_factoring", "generic"}

\* the if/elif chain of _generate_diverse_image_questions
Dispatch(pattern_name) ==
    IF "distance" \in pattern_name THEN "distance_formula"
    ELSE IF "midpoint" \in pattern_name THEN "midpoint"
    ELSE IF "slope" \in pattern_name THEN "slope"
    ELSE IF "line equation" \in pattern_name THEN "line_equation"
    ELSE IF "circle" \in pattern_name THEN "circle"
    ELSE IF "quadratic" \in pattern_name \/ "factoring" \in pattern_name
         THEN "quadratic_factoring"
    ELSE IF "quadratic formula" \in pattern_name THEN "quadratic_formula"
    ELSE IF "vertex" \in pattern_name THEN "vertex_form"
    ELSE IF "discriminant" \in pattern_name THEN "discriminant"
    ELSE IF "right triangle" \in pattern_name THEN "right_triangle"
    ELSE IF "sine" \in pattern_name \/ "cosine" \in pattern_name
         THEN "sine_cosine"
    ELSE IF "unit circle" \in pattern_name THEN "unit_circle"
    ELSE "generic"

\* the Question objects the defined generators build: ten per pattern, with
\* instance_id 0..9, a worded text, a worked answer, a diagram and variables
GeneratedPerPattern == 10

MockQuestion(pattern, id) ==
    [instance_id |-> id,
     pattern_id |-> pattern.pattern_id,
     question_text |-> <<"Find", SP, "x">>,
     correct_answer |-> <<"x", "=", "7">>,
     tikz_code |-> GoodSource,
     solvability_check |-> "pending",
     variables |-> {"x"}]

\* _generate_diverse_image_questions: questions[:QUESTIONS_PER_PATTERN], or
\* the AttributeError of a generator method that does not exist
generate_diverse_image_questions(pattern) ==
    IF Dispatch(pattern.pattern_name) \in DefinedGenerators
    THEN [raised |-> FALSE,
          questions |-> [i \in 1..Min(GeneratedPerPattern, QUESTIONS_PER_PATTERN)
                            |-> MockQuestion(pattern, i - 1)]]
    ELSE [raised |-> TRUE, questions |-> <<>>]

\* SolvabilityChecker.check without its checks of the question text and of
\* the variables
check_answer_only(question) ==
    LET answer == Strip(question.correct_answer)
    IN  IF answer = <<>> \/ Lower(answer) \in {<<"unknown">>, <<"n/a">>}
        THEN "invalid"
        ELSE IF StrLen(answer) < 2 THEN "invalid"
        ELSE "valid"

\* SolvabilityChecker.check: the status it returns
check(question) ==
    LET answer == Strip(question.correct_answer)
    IN  IF answer = <<>> \/ Lower(answer) \in {<<"unknown">>, <<"n/a">>}
        THEN "invalid"
        ELSE IF Strip(question.question_text) = <<>> THEN "invalid"
        ELSE IF question.variables = {} THEN "invalid"
        ELSE IF StrLen(answer) < 2 THEN "invalid"
        ELSE "valid"

\* Pipeline._generate_questions: QuestionGenerator.generate, then the
\* solvability status of every question when the configuration asks for it;
\* every exception is logged and raised again
generate_questions(pattern, validate_solvability) ==
    LET mock == generate_diverse_image_questions(pattern)
    IN  IF mock.raised \/ mock.questions = <<>>
        THEN [raised |-> TRUE, questions |-> <<>>]
        ELSE [raised |-> FALSE,
              questions |->
                  [i \in 1..Len(mock.questions) |->
                      IF validate_solvability
                      THEN [mock.questions[i] EXCEPT
                               !.solvability_check = check(mock.questions[i])]
                      ELSE mock.questions[i]]]

\* f"pattern_{pattern_idx:02d}_question_{instance_id:02d}.png": two two-digit
\* fields; never the empty path
PngPath(pattern_idx, instance_id) == 100 * pattern_idx + instance_id + 1

NoManifest == [none |-> TRUE]

NewRun(topic, requested, validate_solvability) ==
    [pc |-> "generate_patterns",
     topic |-> topic,
     requested |-> requested,
     validate_solvability |-> validate_solvability,
     num_patterns |-> requested,
     patterns |-> <<>>,
     all_question_sets |-> <<>>,
     all_rendered_diagrams |-> <<>>,
     all_pdfs |-> <<>>,
     storage |-> {},
     manifest |-> NoManifest,
     error |-> "none"]

\* run, lines 86-99: num_patterns forced, patterns generated
GeneratePatterns ==
    /\ run.pc = "generate_patterns"
    /\ LET num_patterns == ForcedNumPatterns
       IN  run' = [run EXCEPT
                      !.num_patterns = num_patterns,
                      !.patterns = PatternGenerator_generate(run.topic, num_patterns),
                      !.pc = "save_patterns"]
    /\ UNCHANGED <<pool, val, llm, render_vars>>

\* _save_json: the document is written, or the exception is raised again
save_json(document, then, o) ==
    IF o = "ok"
    THEN [run EXCEPT !.storage = @ \cup {document}, !.pc = then]
    ELSE [run EXCEPT !.pc = "raised", !.error = "storage"]

\* run, lines 101-104
SavePatterns(Outs) ==
    /\ run.pc = "save_patterns"
    /\ \E o \in Outs :
           run' = save_json("patterns",
                            IF run.patterns = <<>> THEN "save_questions"
                            ELSE "generate_questions", o)
    /\ UNCHANGED <<pool, val, llm, render_vars>>

\* run, lines 109-111: one pass of the loop over pattern_schema.patterns
GenerateQuestions ==
    /\ run.pc = "generate_questions"
    /\ LET k == Len(run.all_question_sets) + 1
           r == generate_questions(run.patterns[k], run.validate_solvability)
       IN  run' = IF r.raised
                  THEN [run EXCEPT !.pc = "raised", !.error = "questions"]
                  ELSE [run EXCEPT
                           !.all_question_sets = Append(@, r.questions),
                           !.pc = IF k = Len(run.patterns) THEN "save_questions"
                                  ELSE "generate_questions"]
    /\ UNCHANGED <<pool, val, llm, render_vars>>

\* run, lines 113-117
SaveQuestions(Outs) ==
    /\ run.pc = "save_questions"
    /\ \E o \in Outs :
           run' = save_json("questions",
                            IF run.all_question_sets = <<>> THEN "manifest"
                            ELSE "render", o)
    /\ UNCHANGED <<pool, val, llm, render_vars>>

\* the failed diagrams among the lists rendered so far
RECURSIVE Failures(_)
Failures(lists) ==
    IF lists = <<>> THEN 0
    ELSE Cardinality({i \in 1..Len(Head(lists)) : ~Head(lists)[i].success})
         + Failures(Tail(lists))

\* _render_single_diagram for a source the validator accepts: the diagram
\* of a render call that succeeded (ok) or failed
render_single(question, pattern_idx, ok) ==
    RenderedDiagram(question.tikz_code,
                    PngPath(pattern_idx, question.instance_id),
                    ok,
                    IF ok THEN NoneMessage ELSE Message(<<"Pipeline failed">>))

\* _render_diagrams: one diagram per question, in question order; the
\* instances in Failing are those whose render call fails
render_diagrams(question_set, pattern_idx, Failing) ==
    [i \in 1..Len(question_set) |->
        render_single(question_set[i], pattern_idx, i \notin Failing)]

\* the sets of at most n elements of S
RECURSIVE SubsetsUpTo(_, _)
SubsetsUpTo(S, n) ==
    IF n = 0 THEN {{}}
    ELSE LET smaller == SubsetsUpTo(S, n - 1)
         IN  smaller \cup {F \cup {a} : F \in smaller, a \in S}

\* the sets of instances whose render call may fail in this pass: among the
\* first MaxQ instances, and at most MaxRenderFailures in the whole run
MayFail(question_set, rendered_so_far) ==
    SubsetsUpTo(1..Min(MaxQ, Len(question_set)),
                MaxRenderFailures - Failures(rendered_so_far))

\* run, lines 122-124: one pass of the rendering loop
RenderDiagramsMarkingFailed ==
    /\ run.pc = "render"
    /\ LET k == Len(run.all_rendered_diagrams) + 1
           question_set == run.all_question_sets[k]
       IN  \E Failing \in MayFail(question_set, run.all_rendered_diagrams) :
               run' = [run EXCEPT
                      !.all_rendered_diagrams =
                          Append(@, render_diagrams(question_set, k - 1, Failing)),
                      !.all_question_sets[k] =
                          [i \in 1..Len(question_set) |->
                              IF i \in Failing
                              THEN [question_set[i] EXCEPT
                                       !.solvability_check = "invalid"]
                              ELSE question_set[i]],
                      !.pc = IF k = Len(run.all_question_sets) THEN "build"
                             ELSE "render"]
    /\ UNCHANGED <<pool, val, llm, render_vars>>

RenderDiagrams ==
    /\ run.pc = "render"
    /\ LET k == Len(run.all_rendered_diagrams) + 1
           question_set == run.all_question_sets[k]
       IN  \E Failing \in MayFail(question_set, run.all_rendered_diagrams) :
               run' = [run EXCEPT
                      !.all_rendered_diagrams =
                          Append(@, render_diagrams(question_set, k - 1, Failing)),
                      !.pc = IF k = Len(run.all_question_sets) THEN "build"
                             ELSE "render"]
    /\ UNCHANGED <<pool, val, llm, render_vars>>

\* PDFPage(...), build_pdf lines 216-227
PDFPage(i, question, diagram) ==
    [page_number |-> i,
     question_id |-> question.instance_id,
     question_text |-> question.question_text,
     tikz_code |-> question.tikz_code,
     answer |-> question.correct_answer,
     image_path |-> IF diagram.success THEN diagram.png_path ELSE NoPath]

\* PDFBuilder.build_pdf: the PatternPDF it returns when doc.build succeeds
build_pdf(pattern, question_set, rendered_diagrams) ==
    [pattern_id |-> pattern.pattern_id,
     pattern_name |-> pattern.pattern_name,
     pages |-> [i \in 1..Len(question_set) |->
                   PDFPage(i, question_set[i], rendered_diagrams[i])]]

\* run, lines 129-137: one pass of the assembly loop; _build_pdf logs an
\* exception of build_pdf and raises it again
BuildPdf(Outs) ==
    /\ run.pc = "build"
    /\ LET k == Len(run.all_pdfs) + 1
       IN  \E o \in Outs :
               run' = IF o = "ok"
                      THEN [run EXCEPT
                               !.all_pdfs = Append(@,
                                   build_pdf(run.patterns[k],
                                             run.all_question_sets[k],
                                             run.all_rendered_diagrams[k])),
                               !.pc = IF k = Len(run.all_question_sets)
                                      THEN "manifest" ELSE "build"]
                      ELSE [run EXCEPT !.pc = "raised", !.error = "pdf"]
    /\ UNCHANGED <<pool, val, llm, render_vars>>

\* OutputManifest(...), run lines 141-149
OutputManifest(topic, num_patterns, all_pdfs) ==
    [none |-> FALSE,
     topic |-> topic,
     total_patterns |-> num_patterns,
     total_questions |-> num_patterns * QUESTIONS_PER_PATTERN,
     pdfs |-> all_pdfs]

\* run, lines 139-157: the manifest is created, saved and returned
SaveManifest(Outs) ==
    /\ run.pc = "manifest"
    /\ \E o \in Outs :
           LET manifest == OutputManifest(run.topic, run.num_patterns, run.all_pdfs)
               saved == save_json("manifest", "returned", o)
           IN  run' = IF o = "ok" THEN [saved EXCEPT !.manifest = manifest]
                      ELSE saved
    /\ UNCHANGED <<pool, val, llm, render_vars>>

\* --------------------------------------------------- response text (llm_utils)

\* A response text is a sequence of characters and words: the structural
\* characters of a JSON document, whitespace, a control character, the
\* markdown fence, the letters d, n and t (the last two are JSON escape letters),
\* the digit 1, and the words tikz_code, id, json and Here.
QT == "\""
LB == "["
RB == "]"
LC == "{"
RC == "}"
COLON == ":"
COMMA == ","
NL == "<newline>"
TAB == "<tab>"
CTRL == "<control>"
FENCE == "<fence>"
TIKZ == "tikz_code"
ID == "id"
JSONWORD == "json"
PROSE == "Here"

\* str.strip() and \s: space, newline, tab
Whitespace == {SP, NL, TAB}

\* letters and words, as an unquoted key may be written
Words == {"d", "n", "t", TIKZ, ID, JSONWORD, PROSE}

RECURSIVE LStripWs(_)
LStripWs(s) == IF s # <<>> /\ Head(s) \in Whitespace THEN LStripWs(Tail(s)) ELSE s

RECURSIVE RStripWs(_)
RStripWs(s) ==
    IF s # <<>> /\ s[Len(s)] \in Whitespace
    THEN RStripWs(SubSeq(s, 1, Len(s) - 1)) ELSE s

StripWs(s) == RStripWs(LStripWs(s))

\* text[a:b] of Python, on 0-based positions
Slice(s, a, b) == SubSeq(s, a + 1, b)

\* clean_response_text: control characters other than newline, tab and
\* carriage return become a space
clean_response_text(response_text) ==
    [k \in 1..Len(response_text) |->
        IF response_text[k] = CTRL THEN SP ELSE response_text[k]]

\* the least and the greatest member of a set of positions
MinOf(S) == CHOOSE x \in S : \A y \in S : x <= y
MaxOf(S) == CHOOSE x \in S : \A y \in S : x >= y

\* first 0-based position at or after `from` where the tokens of `pat` occur
\* one after the other; -1 when there is none (str.find)
Find(s, pat, from) ==
    LET hits == {k \in from..(Len(s) - Len(pat)) : Slice(s, k, k + Len(pat)) = pat}
    IN  IF hits = {} THEN -1 ELSE MinOf(hits)

\* 0-based position just past the whitespace that starts at `from`
RECURSIVE SkipWs(_, _)
SkipWs(s, from) ==
    IF from < Len(s) /\ s[from + 1] \in Whitespace THEN SkipWs(s, from + 1)
    ELSE from

\* re.search(first \s* second): 0-based start of the first match, or -1
SearchPair(s, first, second, from) ==
    LET hits == {k \in from..(Len(s) - 1) :
                    /\ s[k + 1] = first
                    /\ SkipWs(s, k + 1) < Len(s)
                    /\ s[SkipWs(s, k + 1) + 1] = second}
    IN  IF hits = {} THEN -1 ELSE MinOf(hits)

\* a loop over the text has not ended
Scanning == -2

\* one pass of the bracket-counting loop of extract_json_from_markdown,
\* lines 114-137: `end` becomes the 0-based position of the bracket that
\* brings the count back to zero, or -1 when the text ends first
balance_step(s, st) ==
    IF st.end # Scanning THEN st
    ELSE IF st.i >= Len(s) THEN [st EXCEPT !.end = -1]
    ELSE LET char == s[st.i + 1]
             next == [st EXCEPT !.i = @ + 1, !.escape_next = FALSE]
         IN  IF st.escape_next THEN next
             ELSE IF char = BS /\ st.in_string THEN [next EXCEPT !.escape_next = TRUE]
             ELSE IF char = QT THEN [next EXCEPT !.in_string = ~@]
             ELSE IF st.in_string THEN next
             ELSE IF char \in {LB, LC} THEN [next EXCEPT !.brace_count = @ + 1]
             ELSE IF char \in {RB, RC}
                  THEN IF st.brace_count - 1 = 0 THEN [st EXCEPT !.end = st.i]
                       ELSE [next EXCEPT !.brace_count = @ - 1]
             ELSE next

\* the loop, eight passes at a time
RECURSIVE BalancedLoop(_, _)
BalancedLoop(s, st) ==
    IF st.end # Scanning THEN st.end
    ELSE BalancedLoop(s,
             balance_step(s, balance_step(s, balance_step(s, balance_step(s,
             balance_step(s, balance_step(s, balance_step(s, balance_step(s,
                 st)))))))))

BalancedEnd(s, start_pos) ==
    BalancedLoop(s, [i |-> start_pos, brace_count |-> 0, in_string |-> FALSE,
                     escape_next |-> FALSE, end |-> Scanning])

\* the span from a pattern match to its balancing bracket, stripped;
\* <<FALSE, ...>> when there is no match or no balancing bracket
BalancedSpan(s, first, second) ==
    LET start_pos == SearchPair(s, first, second, 0)
        end == IF start_pos = -1 THEN -1
               ELSE BalancedEnd(s, start_pos)
    IN  IF end = -1 THEN [found |-> FALSE, text |-> <<>>]
        ELSE [found |-> TRUE, text |-> StripWs(Slice(s, start_pos, end + 1))]

\* text.split(sep)[1].split(fence)[0]: what follows the first sep, up to the
\* next fence
AfterFirst(s, sep) ==
    LET from == Find(s, sep, 0) + Len(sep)
        upto == Find(s, <<FENCE>>, from)
    IN  Slice(s, from, IF upto = -1 THEN Len(s) ELSE upto)

extract_json_from_markdown(response_text) ==
    IF Find(response_text, <<FENCE, JSONWORD>>, 0) # -1
    THEN StripWs(AfterFirst(response_text, <<FENCE, JSONWORD>>))
    ELSE IF Find(response_text, <<FENCE>>, 0) # -1
    THEN StripWs(AfterFirst(response_text, <<FENCE>>))
    ELSE IF BalancedSpan(response_text, LB, LC).found
    THEN BalancedSpan(response_text, LB, LC).text
    ELSE IF BalancedSpan(response_text, LC, QT).found
    THEN BalancedSpan(response_text, LC, QT).text
    ELSE StripWs(response_text)

\* ------------------------------------------------ json.loads and json5.loads

\* A parsed value: a string or a number (its characters), an array (its
\* values) or an object (a function from key to value).
StrValue(chars) == [t |-> "str", v |-> chars]
NumValue(chars) == [t |-> "num", v |-> chars]
ArrValue(values) == [t |-> "arr", v |-> values]
ObjValue(members) == [t |-> "obj", v |-> members]

EmptyDict == <<>>

\* dict[key] = value: a later member replaces an earlier one of the same key
SetItem(members, key, value) ==
    [k \in DOMAIN members \cup {key} |-> IF k = key THEN value ELSE members[k]]

ParseError == [ok |-> FALSE]

Parsed(value, next) == [ok |-> TRUE, v |-> value, next |-> next]

\* what a backslash followed by `char` stands for inside a string; the word
\* tikz_code starts with the escape letter t
Unescape(char, lenient) ==
    IF char = QT THEN Parsed(<<QT>>, 0)
    ELSE IF char = BS THEN Parsed(<<BS>>, 0)
    ELSE IF char = "n" THEN Parsed(<<NL>>, 0)
    ELSE IF char = "t" THEN Parsed(<<TAB>>, 0)
    ELSE IF char = TIKZ THEN Parsed(<<TAB, "ikz_code">>, 0)
    ELSE IF ~lenient THEN ParseError
    ELSE IF char = NL THEN Parsed(<<>>, 0)
    ELSE IF char = "1" THEN ParseError
    ELSE Parsed(<<char>>, 0)

\* the characters of a string literal whose opening quote precedes position i
RECURSIVE ParseChars(_, _, _, _)
ParseChars(s, i, lenient, acc) ==
    IF i >= Len(s) THEN ParseError
    ELSE LET char == s[i + 1]
         IN  IF char = QT THEN Parsed(StrValue(acc), i + 1)
             ELSE IF char = BS
                  THEN IF i + 1 >= Len(s) THEN ParseError
                       ELSE LET e == Unescape(s[i + 2], lenient)
                            IN  IF e.ok THEN ParseChars(s, i + 2, lenient, acc \o e.v)
                                ELSE ParseError
             ELSE IF char = NL \/ (~lenient /\ char \in {TAB, CTRL}) THEN ParseError
             ELSE ParseChars(s, i + 1, lenient, Append(acc, char))

\* a run of digits, or of letters, words and digits (an unquoted key)
RECURSIVE RunEnd(_, _, _)
RunEnd(s, i, Allowed) ==
    IF i < Len(s) /\ s[i + 1] \in Allowed THEN RunEnd(s, i + 1, Allowed) ELSE i

RECURSIVE ParseValue(_, _, _)
RECURSIVE ParseMembers(_, _, _, _)
RECURSIVE ParseElements(_, _, _, _)

\* the members of an object from position i, after "{" or after a comma
ParseMembers(s, i, lenient, members) ==
    LET j == SkipWs(s, i)
    IN  IF j >= Len(s) THEN ParseError
        ELSE IF s[j + 1] = RC /\ (members = EmptyDict \/ lenient)
             THEN Parsed(ObjValue(members), j + 1)
        ELSE LET key == IF s[j + 1] = QT THEN ParseChars(s, j + 1, lenient, <<>>)
                        ELSE IF lenient /\ s[j + 1] \in Words
                             THEN Parsed(StrValue(Slice(s, j, RunEnd(s, j, Words \cup {"1"}))),
                                         RunEnd(s, j, Words \cup {"1"}))
                        ELSE ParseError
             IN  IF ~key.ok THEN ParseError
                 ELSE LET c == SkipWs(s, key.next)
                      IN  IF c >= Len(s) \/ s[c + 1] # COLON THEN ParseError
                          ELSE LET value == ParseValue(s, SkipWs(s, c + 1), lenient)
                               IN  IF ~value.ok THEN ParseError
                                   ELSE LET m == SkipWs(s, value.next)
                                            now == SetItem(members, key.v.v, value.v)
                                        IN  IF m >= Len(s) THEN ParseError
                                            ELSE IF s[m + 1] = COMMA
                                                 THEN ParseMembers(s, m + 1, lenient, now)
                                            ELSE IF s[m + 1] = RC
                                                 THEN Parsed(ObjValue(now), m + 1)
                                            ELSE ParseError

\* the elements of an array from position i, after "[" or after a comma
ParseElements(s, i, lenient, values) ==
    LET j == SkipWs(s, i)
    IN  IF j >= Len(s) THEN ParseError
        ELSE IF s[j + 1] = RB /\ (values = <<>> \/ lenient)
             THEN Parsed(ArrValue(values), j + 1)
        ELSE LET value == ParseValue(s, j, lenient)
             IN  IF ~value.ok THEN ParseError
                 ELSE LET m == SkipWs(s, value.next)
                          now == Append(values, value.v)
                      IN  IF m >= Len(s) THEN ParseError
                          ELSE IF s[m + 1] = COMMA
                               THEN ParseElements(s, m + 1, lenient, now)
                          ELSE IF s[m + 1] = RB THEN Parsed(ArrValue(now), m + 1)
                          ELSE ParseError

\* the value that starts at position i
ParseValue(s, i, lenient) ==
    IF i >= Len(s) THEN ParseError
    ELSE IF s[i + 1] = LC THEN ParseMembers(s, i + 1, lenient, EmptyDict)
    ELSE IF s[i + 1] = LB THEN ParseElements(s, i + 1, lenient, <<>>)
    ELSE IF s[i + 1] = QT THEN ParseChars(s, i + 1, lenient, <<>>)
    ELSE IF s[i + 1] = "1"
         THEN Parsed(NumValue(Slice(s, i, RunEnd(s, i, {"1"}))), RunEnd(s, i, {"1"}))
    ELSE ParseError

\* one value between optional whitespace, and nothing else
Loads(s, lenient) ==
    LET value == ParseValue(s, SkipWs(s, 0), lenient)
    IN  IF value.ok /\ SkipWs(s, value.next) = Len(s)
        THEN [ok |-> TRUE, v |-> value.v]
        ELSE ParseError

\* json.loads
json_loads(s) == Loads(s, FALSE)

\* json5.loads: trailing commas, unquoted keys, any escaped character
json5_loads(s) == Loads(s, TRUE)

\* ---------------------------------------------------- fix_tikz_json_parsing

\* '"tikz_code":'
TikzKey == <<QT, TIKZ, QT, COLON>>

\* fix_tikz_json_parsing, line 248
max_iterations == 10

\* re.search(r'"tikz_code":\s*"', text).end(): the 0-based position after
\* the opening quote of the first tikz_code value, or -1
RECURSIVE TikzValueStart(_, _)
TikzValueStart(text, from) ==
    LET p == Find(text, TikzKey, from)
        j == SkipWs(text, p + Len(TikzKey))
    IN  IF p = -1 THEN -1
        ELSE IF j < Len(text) /\ text[j + 1] = QT THEN j + 1
        ELSE TikzValueStart(text, p + 1)

\* the locals of fix_single_tikz_field, lines 196-199
NewScan(start_pos) ==
    [start_pos |-> start_pos, pos |-> start_pos, brace_count |-> 0,
     in_escape |-> FALSE, end_pos |-> Scanning]

\* brace_count, kept within -MaxBraceCount..MaxBraceCount
Saturate(n) ==
    IF n > MaxBraceCount THEN MaxBraceCount
    ELSE IF n < -MaxBraceCount THEN -MaxBraceCount
    ELSE n

\* one pass of the while loop of fix_single_tikz_field, lines 202-226: the
\* branches for "{" and "}" change brace_count and leave pos where it is
scan_step(text, sc) ==
    IF sc.pos >= Len(text) THEN [sc EXCEPT !.end_pos = Len(text) - 1]
    ELSE LET char == text[sc.pos + 1]
         IN  IF char = BS /\ ~sc.in_escape
             THEN [sc EXCEPT !.in_escape = TRUE, !.pos = @ + 1]
             ELSE IF char = BS /\ sc.in_escape
             THEN [sc EXCEPT !.in_escape = FALSE, !.pos = @ + 1]
             ELSE IF char = QT /\ ~sc.in_escape
             THEN [sc EXCEPT !.end_pos = sc.pos]
             ELSE IF char = LC
             THEN [sc EXCEPT !.brace_count = Saturate(@ + 1)]
             ELSE IF char = RC
             THEN [sc EXCEPT !.brace_count = Saturate(@ - 1)]
             ELSE IF sc.brace_count = 0 /\ char \in {COMMA, RC}
             THEN [sc EXCEPT !.end_pos = sc.pos]
             ELSE [sc EXCEPT !.pos = @ + 1]

\* the pieces of a text, one after the other
RECURSIVE ConcatRange(_, _, _)
ConcatRange(pieces, lo, hi) ==
    IF lo > hi THEN <<>>
    ELSE IF lo = hi THEN pieces[lo]
    ELSE ConcatRange(pieces, lo, (lo + hi) \div 2)
         \o ConcatRange(pieces, (lo + hi) \div 2 + 1, hi)

Concat(pieces) == ConcatRange(pieces, 1, Len(pieces))

\* re.sub(r'(?<!\\)\\', r'\\\\', s): a backslash that no backslash precedes
\* becomes two
EscapeBackslashes(s) ==
    Concat([k \in 1..Len(s) |->
               IF s[k] = BS /\ (k = 1 \/ s[k - 1] # BS) THEN <<BS, BS>> ELSE <<s[k]>>])

\* str.replace(char, replacement)
Replace(s, char, replacement) ==
    Concat([k \in 1..Len(s) |-> IF s[k] = char THEN replacement ELSE <<s[k]>>])

\* lines 229-241: backslashes, then quotes, newlines and tabs
escape_tikz_content(tikz_content) ==
    Replace(Replace(Replace(EscapeBackslashes(tikz_content),
                            QT, <<BS, QT>>),
                    NL, <<BS, "n">>),
            TAB, <<BS, "t">>)

\* lines 228-244: the text fix_single_tikz_field returns for the value
\* text[start_pos:end_pos]
rewrite_tikz_field(text, start_pos, end_pos) ==
    Slice(text, 0, start_pos)
    \o <<QT, TIKZ, QT, COLON, SP, QT>>
    \o escape_tikz_content(Slice(text, start_pos, end_pos))
    \o <<QT>>
    \o Slice(text, end_pos + 1, Len(text))

\* ------------------------------------ manually_fix_tikz_quotes, reconstruction

NoMatch == [found |-> FALSE]

\* the first match of r'"tikz_code":\s*"([^"]*)"' at or after `from`: the
\* position of the key, of the value and of the closing quote. The pattern
\* of manually_fix_tikz_quotes, r'"tikz_code":\s*"([^"]*(?:\\.[^"]*)*)"',
\* matches the same spans: its value also ends at the first quote.
RECURSIVE TikzMatch(_, _)
TikzMatch(text, from) ==
    LET p == Find(text, TikzKey, from)
        j == SkipWs(text, p + Len(TikzKey))
        q == Find(text, <<QT>>, j + 1)
    IN  IF p = -1 THEN NoMatch
        ELSE IF j < Len(text) /\ text[j + 1] = QT /\ q # -1
             THEN [found |-> TRUE, key |-> p, value |-> j + 1, close |-> q]
        ELSE TikzMatch(text, p + 1)

\* re.sub of that pattern by '"tikz_code": "<content>"', the content escaped
\* when `escape` is set
RECURSIVE SubTikz(_, _, _)
SubTikz(text, from, escape) ==
    LET m == TikzMatch(text, from)
        content == Slice(text, m.value, m.close)
    IN  IF ~m.found THEN Slice(text, from, Len(text))
        ELSE Slice(text, from, m.key)
             \o <<QT, TIKZ, QT, COLON, SP, QT>>
             \o (IF escape THEN escape_tikz_content(content) ELSE content)
             \o <<QT>>
             \o SubTikz(text, m.close + 1, escape)

\* re.sub(r'(?<!\\)"', r'\\"', s): a quote that no backslash precedes gets one
EscapeQuotes(s) ==
    Concat([k \in 1..Len(s) |->
               IF s[k] = QT /\ (k = 1 \/ s[k - 1] # BS) THEN <<BS, QT>> ELSE <<s[k]>>])

\* str.split('\n')
RECURSIVE SplitLines(_)
SplitLines(s) ==
    LET k == Find(s, <<NL>>, 0)
    IN  IF k = -1 THEN <<s>>
        ELSE <<Slice(s, 0, k)>> \o SplitLines(Slice(s, k + 1, Len(s)))

\* '\n'.join(lines)
RECURSIVE JoinLines(_)
JoinLines(lines) ==
    IF Len(lines) = 1 THEN lines[1]
    ELSE lines[1] \o <<NL>> \o JoinLines(Tail(lines))

\* str.rstrip('",')
RECURSIVE RStripQuoteComma(_)
RStripQuoteComma(s) ==
    IF s # <<>> /\ s[Len(s)] \in {QT, COMMA}
    THEN RStripQuoteComma(SubSeq(s, 1, Len(s) - 1)) ELSE s

EndsWith(s, suffix) ==
    Len(s) >= Len(suffix) /\ SubSeq(s, Len(s) - Len(suffix) + 1, Len(s)) = suffix

\* the line loop of manually_fix_tikz_quotes, lines 284-304
RECURSIVE FixLines(_, _)
FixLines(lines, in_tikz) ==
    IF lines = <<>> THEN <<>>
    ELSE LET line == Head(lines)
         IN  IF Find(line, TikzKey, 0) # -1
             THEN <<line>> \o FixLines(Tail(lines), TRUE)
             ELSE IF in_tikz /\ EndsWith(StripWs(line), <<QT, COMMA>>)
             THEN <<EscapeQuotes(RStripQuoteComma(line)) \o <<QT, COMMA>>>>
                  \o FixLines(Tail(lines), FALSE)
             ELSE IF in_tikz
             THEN <<EscapeQuotes(line)>> \o FixLines(Tail(lines), TRUE)
             ELSE <<line>> \o FixLines(Tail(lines), FALSE)

manually_fix_tikz_quotes(response_text) ==
    LET fixed == SubTikz(response_text, 0, FALSE)
    IN  IF fixed = response_text
        THEN JoinLines(FixLines(SplitLines(response_text), FALSE))
        ELSE fixed

\* 1-based position of the last character before position k that is not
\* whitespace, or 0
RECURSIVE BackSkipWs(_, _)
BackSkipWs(s, k) ==
    IF k > 1 /\ s[k - 1] \in Whitespace THEN BackSkipWs(s, k - 1) ELSE k - 1

\* first \s* second starts at the 1-based position k
PairAt(s, k, first, second) ==
    /\ s[k] = first
    /\ SkipWs(s, k) < Len(s)
    /\ s[SkipWs(s, k) + 1] = second

\* re.sub(first \s* second, replacement, s), first and second different
\* characters and neither whitespace: a match gives way to the replacement
SubPair(s, first, second, replacement) ==
    Concat([k \in 1..Len(s) |->
               IF PairAt(s, k, first, second) THEN replacement
               ELSE IF s[k] \in Whitespace \cup {second}
                       /\ BackSkipWs(s, k) >= 1
                       /\ PairAt(s, BackSkipWs(s, k), first, second)
                       /\ k <= SkipWs(s, BackSkipWs(s, k)) + 1
                    THEN <<>>
               ELSE <<s[k]>>])

\* 1-based position where the run of backslashes around position k starts
RECURSIVE RunStart(_, _)
RunStart(s, k) == IF k > 1 /\ s[k - 1] = BS THEN RunStart(s, k - 1) ELSE k

\* length of the run of backslashes that starts at the 1-based position k
RECURSIVE RunLength(_, _)
RunLength(s, k) == IF k <= Len(s) /\ s[k] = BS THEN 1 + RunLength(s, k + 1) ELSE 0

\* re.sub of four backslashes by two (lines 465, 510) and
\* str.replace of two backslashes by one (lines 535, 551): in every run of
\* backslashes, from its left, each `n` of them become `by`
SubBackslashes(s, n, by) ==
    Concat([k \in 1..Len(s) |->
               IF s[k] # BS THEN <<s[k]>>
               ELSE LET offset == k - RunStart(s, k)
                        group == offset \div n
                    IN  IF (group + 1) * n > RunLength(s, RunStart(s, k)) THEN <<BS>>
                        ELSE IF offset % n = 0 THEN by
                        ELSE <<>>])

\* r'"([^"]+)"\s*:\s*"([^"]*)"' matches at the 0-based position i: the
\* positions of the quote that closes the key, of the one that opens the
\* value and of the one that closes it
PairMatch(text, i) ==
    LET k == Find(text, <<QT>>, i + 1)
        c == SkipWs(text, k + 1)
        m == SkipWs(text, c + 1)
        n == Find(text, <<QT>>, m + 1)
    IN  IF text[i + 1] = QT /\ k > i + 1
           /\ c < Len(text) /\ text[c + 1] = COLON
           /\ m < Len(text) /\ text[m + 1] = QT
           /\ n # -1
        THEN [found |-> TRUE, key |-> k, value |-> m, close |-> n]
        ELSE NoMatch

\* re.findall of that pattern from position `from`, folded into the
\* dictionary extract_simple_kv_pairs builds
RECURSIVE SimplePairs(_, _, _)
SimplePairs(text, from, result) ==
    LET starts == {i \in from..(Len(text) - 1) : PairMatch(text, i).found}
        i == MinOf(starts)
        m == PairMatch(text, i)
    IN  IF starts = {} THEN result
        ELSE SimplePairs(text, m.close + 1,
                 SetItem(result, Slice(text, i + 1, m.key),
                         StrValue(SubBackslashes(Slice(text, m.value + 1, m.close),
                                                 2, <<BS>>))))

\* extract_simple_kv_pairs: the dictionary, empty where the code returns None;
\* the special handling reads the key's own name as the value
extract_simple_kv_pairs(text) ==
    LET result == SimplePairs(text, 0, EmptyDict)
        tikz_start == Find(text, TikzKey, 0)
    IN  IF Find(text, <<TIKZ>>, 0) # -1 /\ <<TIKZ>> \notin DOMAIN result
           /\ tikz_start # -1
        THEN SetItem(result, <<TIKZ>>, StrValue(<<TIKZ>>))
        ELSE result

\* one pass of the loop of lines 412-431: `end` becomes the position of the
\* brace that closes the object
object_step(text, st) ==
    IF st.end # Scanning \/ st.end_pos >= Len(text) THEN st
    ELSE LET char == text[st.end_pos + 1]
             next == [st EXCEPT !.end_pos = @ + 1]
         IN  IF char = QT THEN [next EXCEPT !.in_string = ~@]
             ELSE IF char = LC /\ ~st.in_string
                  THEN [next EXCEPT !.brace_count = @ + 1]
             ELSE IF char = RC /\ ~st.in_string
                  THEN IF st.brace_count - 1 = 0 THEN [st EXCEPT !.end = st.end_pos]
                       ELSE [next EXCEPT !.brace_count = @ - 1]
             ELSE next

\* the loop, eight passes at a time
RECURSIVE ObjectLoop(_, _)
ObjectLoop(text, st) ==
    IF st.end # Scanning THEN st.end
    ELSE IF st.end_pos >= Len(text) THEN st.end_pos
    ELSE ObjectLoop(text,
             object_step(text, object_step(text, object_step(text, object_step(text,
             object_step(text, object_step(text, object_step(text, object_step(text,
                 st)))))))))

\* lines 408-431: the position where the object opened at start_pos closes,
\* or len(text) when it does not
ObjectEnd(text, start_pos) ==
    ObjectLoop(text, [end_pos |-> start_pos + 1, brace_count |-> 1,
                      in_string |-> FALSE, end |-> Scanning])

\* lines 438-465: the repairs applied to one object before json5.loads
fix_object(obj_text) ==
    SubBackslashes(
        EscapeQuotes(
            SubPair(SubPair(SubTikz(obj_text, 0, TRUE), COMMA, RC, <<RC>>),
                    RC, LC, <<RC, COMMA, LC>>)),
        4, <<BS, BS>>)

\* lines 468-479: the object json5.loads made of the repaired text, or else
\* the one extract_simple_kv_pairs made of the text as it was, if it has a
\* member
reconstructed(obj, simple_obj) ==
    IF obj.ok THEN <<obj.v>>
    ELSE IF simple_obj # EmptyDict THEN <<ObjValue(simple_obj)>>
    ELSE <<>>

\* lines 434-479, for the object text[start_pos:end_pos + 1]
reconstruct_object(obj_text) ==
    reconstructed(json5_loads(fix_object(obj_text)), extract_simple_kv_pairs(obj_text))

\* line 433: an object that does not close is left out
closed_object(text, start_pos, end_pos) ==
    IF end_pos >= Len(text) THEN <<>>
    ELSE reconstruct_object(Slice(text, start_pos, end_pos + 1))

\* lines 394-479: the objects reconstructed from each "{", the first of
\* them at start_pos
RECURSIVE ReconstructObjects(_, _)
ReconstructObjects(text, start_pos) ==
    IF start_pos = -1 THEN <<>>
    ELSE closed_object(text, start_pos, ObjectEnd(text, start_pos))
         \o ReconstructObjects(text, Find(text, <<LC>>, start_pos + 1))

\* position of the last "]", or -1 (the greedy .* of r'\[.*\]')
LastBracket(text) ==
    LET hits == {k \in 0..(Len(text) - 1) : text[k + 1] = RB}
    IN  IF hits = {} THEN -1 ELSE MaxOf(hits)

\* lines 493-510: the repairs applied to the array before json5.loads
fix_array(array_text) ==
    SubBackslashes(
        SubPair(EscapeQuotes(SubTikz(array_text, 0, TRUE)), COMMA, RB, <<RB>>),
        4, <<BS, BS>>)

\* lines 487-515: the array between the first "[" and the last "]"
reconstruct_array(text, first, last) ==
    IF first # -1 /\ last > first
    THEN json5_loads(fix_array(Slice(text, first, last + 1)))
    ELSE ParseError

\* lines 482-518: the objects when there are any, else the array
objects_or_array(objects, array) ==
    IF objects # <<>> THEN [ok |-> TRUE, v |-> ArrValue(objects)] ELSE array

\* reconstruct_json_from_partial; ParseError stands for its ValueError
reconstruct_json_from_partial(response_text) ==
    objects_or_array(
        ReconstructObjects(response_text, Find(response_text, <<LC>>, 0)),
        reconstruct_array(response_text, Find(response_text, <<LB>>, 0),
                          LastBracket(response_text)))

\* ----------------------------------------------------- process_llm_response

\* the messages of the two errors parse_json_response raises
EmptyResponse == "Empty response from LLM"
InvalidResponse == "Invalid JSON response from LLM"

NoValue == [t |-> "none"]

\* the frame of process_llm_response(raw): the response text as repaired so
\* far, the loop of fix_tikz_json_parsing and the scan of
\* fix_single_tikz_field, the parsers tried, and the outcome
NewLlm(raw) ==
    [pc |-> "clean", raw |-> raw, text |-> raw, iterations |-> 0,
     scan |-> NewScan(0), strategies |-> <<>>, result |-> NoValue,
     error |-> <<>>]

\* process_llm_response, lines 576-577
CleanAndExtract ==
    /\ llm.pc = "clean"
    /\ llm' = [llm EXCEPT !.pc = "parse",
                          !.text = extract_json_from_markdown(clean_response_text(llm.raw))]
    /\ UNCHANGED <<pool, val, run, render_vars>>

never_blank(response_text) == FALSE

\* not response_text.strip()
is_blank(response_text) == StripWs(response_text) = <<>>

\* parse_json_response, lines 330-331
CheckEmpty ==
    /\ llm.pc = "parse"
    /\ llm' = IF is_blank(llm.text)
              THEN [llm EXCEPT !.pc = "raised", !.error = <<EmptyResponse>>]
              ELSE [llm EXCEPT !.pc = "fix"]
    /\ UNCHANGED <<pool, val, run, render_vars>>

\* fix_tikz_json_parsing, lines 181-182 and 251: the loop goes on while the
\* key is in the text and iterations remain; fix_single_tikz_field, lines
\* 192-200: without a value to fix the text comes back as it was, which ends
\* the loop
FixLoop ==
    /\ llm.pc = "fix"
    /\ LET start_pos == TikzValueStart(llm.text, 0)
       IN  llm' = IF Find(llm.text, TikzKey, 0) # -1
                     /\ llm.iterations < max_iterations
                     /\ start_pos # -1
                  THEN [llm EXCEPT !.pc = "scan", !.scan = NewScan(start_pos)]
                  ELSE [llm EXCEPT !.pc = "strategy1"]
    /\ UNCHANGED <<pool, val, run, render_vars>>

\* lines 252-256: the loop of fix_tikz_json_parsing ends when the field
\* came back as it was, and else takes the new text
rewritten(sc, new_response) ==
    IF new_response = llm.text
    THEN [llm EXCEPT !.pc = "strategy1", !.scan = sc]
    ELSE [llm EXCEPT !.pc = "fix", !.scan = sc, !.text = new_response,
                     !.iterations = @ + 1]

\* the scan goes on, or it has found the end of the value and the field is
\* rewritten (lines 228-244)
scanned(sc) ==
    IF sc.end_pos = Scanning THEN [llm EXCEPT !.scan = sc]
    ELSE rewritten(sc, rewrite_tikz_field(llm.text, sc.start_pos, sc.end_pos))

\* one pass of the scan, lines 202-226
ScanStep ==
    /\ llm.pc = "scan"
    /\ llm' = scanned(scan_step(llm.text, llm.scan))
    /\ UNCHANGED <<pool, val, run, render_vars>>

\* what a parser of the chain of parse_json_response leaves: the value it
\* parsed, returned, or the next parser to try
Tried(strategy, parsed, next) ==
    IF parsed.ok
    THEN [llm EXCEPT !.pc = "returned", !.result = parsed.v,
                     !.strategies = Append(@, strategy)]
    ELSE [llm EXCEPT !.pc = next, !.strategies = Append(@, strategy)]

\* lines 346-348
Strategy1 ==
    /\ llm.pc = "strategy1"
    /\ llm' = Tried("json", json_loads(llm.text), "strategy2")
    /\ UNCHANGED <<pool, val, run, render_vars>>

\* lines 353-355
Strategy2 ==
    /\ llm.pc = "strategy2"
    /\ llm' = Tried("json5", json5_loads(llm.text), "strategy3")
    /\ UNCHANGED <<pool, val, run, render_vars>>

\* lines 359-363
Strategy3 ==
    /\ llm.pc = "strategy3"
    /\ llm' = Tried("cleaning",
                    json5_loads(extract_json_from_markdown(clean_response_text(llm.text))),
                    "strategy4")
    /\ UNCHANGED <<pool, val, run, render_vars>>

\* lines 367-370
Strategy4 ==
    /\ llm.pc = "strategy4"
    /\ llm' = Tried("manual_fix", json5_loads(manually_fix_tikz_quotes(llm.text)),
                    "strategy5")
    /\ UNCHANGED <<pool, val, run, render_vars>>

\* line 380: the ValueError whose message ends with the message of the
\* JSONDecodeError of json.loads
Raised(tried) ==
    IF tried.pc = "raised"
    THEN [tried EXCEPT !.error = <<InvalidResponse, "JSONDecodeError">>]
    ELSE tried

\* lines 374-380
Strategy5 ==
    /\ llm.pc = "strategy5"
    /\ llm' = Raised(Tried("reconstruction",
                           reconstruct_json_from_partial(llm.text), "raised"))
    /\ UNCHANGED <<pool, val, run, render_vars>>

\* ------------------------------------------------ the render specifications

Start(Q, m, retries, keep) ==
    /\ questions = Q
    /\ mode = m
    /\ max_retries = retries
    /\ keep_intermediate = keep
    /\ clock = 0
    /\ scratch = {}
    /\ call = [i \in 1..Len(Q) |-> NewCall]
    /\ completed = <<>>
    /\ rendered = IF m = "parallel" THEN [i \in 1..Len(Q) |-> NoneResult] ELSE <<>>
    /\ orch = "running"
    /\ run = IdleRun
    /\ llm = IdleLlm
    /\ val = IdleVal
    /\ pool = IdlePool

\* every outcome of the file system, the compiler and the rasterizer
TexOutcomes == {"ok", "open_error", "write_error"}
CompileOutcomes == {"ok", "nonzero", "timeout", "missing", "empty", "exec_error"}
RasterOutcomes == {"ok", "open_error", "save_error"}
UnlinkFailures == SUBSET {"tex", "pdf"}

\* One render call, alone or under _render_single_diagram, with the default
\* retry ceiling and every outcome of its collaborators.
Init ==
    \E s \in SampleSources, m \in {"direct", "sequential"}, keep \in BOOLEAN :
        Start(<<s>>, m, DefaultMaxRetries, keep)

Next ==
    \/ \E i \in Inst : DirectCall(i)
    \/ \E i \in Inst : SeqCall(i)
    \/ \E i \in Inst : render_single_diagram(i)
    \/ \E i \in Inst : RenderBegin(i)
    \/ \E i \in Inst : WriteTexAttempt(i, TexOutcomes)
    \/ \E i \in Inst : CompileAttempt(i, CompileOutcomes)
    \/ \E i \in Inst : RasterAttempt(i, RasterOutcomes, PngImages)
    \/ \E i \in Inst : ValidatePng(i)
    \/ \E i \in Inst : Finally(i, UnlinkFailures)
    \/ \E i \in Inst : SeqAppend(i)

Spec == Init /\ [][Next]_vars

\* one failure kind per stage
FewTexOutcomes == {"ok", "write_error"}
FewCompileOutcomes == {"ok", "nonzero"}
FewRasterOutcomes == {"ok", "open_error"}
NoUnlinkFailures == {{}}

\* One instance of a Pipeline run, over every diagram source of at most
\* MaxSrcLen tokens.
InitSrc ==
    \E s \in SeqsUpTo(Tokens, MaxSrcLen) : Start(<<s>>, "sequential", 1, FALSE)

NextSrc ==
    \/ \E i \in Inst : SeqCall(i)
    \/ \E i \in Inst : render_single_diagram(i)
    \/ \E i \in Inst : RenderBegin(i)
    \/ \E i \in Inst : WriteTexAttempt(i, FewTexOutcomes)
    \/ \E i \in Inst : CompileAttempt(i, FewCompileOutcomes)
    \/ \E i \in Inst : RasterAttempt(i, FewRasterOutcomes, GoodPngImages)
    \/ \E i \in Inst : ValidatePng(i)
    \/ \E i \in Inst : Finally(i, NoUnlinkFailures)
    \/ \E i \in Inst : SeqAppend(i)

SpecSrc == InitSrc /\ [][NextSrc]_vars

\* _render_diagrams over a question set of at most MaxQ instances, sequential
\* or through the worker pool, while the clock runs.
ParSources == {GoodSource, UnbalancedSource}

InitPar ==
    \E Q \in SeqsUpTo(ParSources, MaxQ), m \in {"sequential", "parallel"} :
        /\ Q # <<>>
        /\ Start(Q, m, 1, FALSE)

NextPar ==
    \/ Tick
    \/ \E i \in Inst : SeqCall(i)
    \/ \E i \in Inst : Submit(i)
    \/ \E i \in Inst : WorkerPick(i)
    \/ \E i \in Inst : render_single_diagram(i)
    \/ \E i \in Inst : RenderBegin(i)
    \/ \E i \in Inst : WriteTexAttempt(i, FewTexOutcomes)
    \/ \E i \in Inst : CompileAttempt(i, FewCompileOutcomes)
    \/ \E i \in Inst : RasterAttempt(i, FewRasterOutcomes, GoodPngImages)
    \/ \E i \in Inst : ValidatePng(i)
    \/ \E i \in Inst : Finally(i, NoUnlinkFailures)
    \/ \E i \in Inst : SeqAppend(i)
    \/ \E i \in Inst : Collect(i)
    \/ ParReturn

SpecPar == InitPar /\ [][NextPar]_vars

\* ---------------------------------------------------------------- properties

Done(i) == call[i].pc = "done"

\* C1: in parallel mode the list _render_diagrams_parallel returns has one
\* entry per Question Instance, and the entry at position i is the result of
\* the call made for the instance at position i (its source, its image path),
\* whatever the order in which the calls completed.
C1_ResultsByPosition ==
    /\ mode = "parallel" =>
         /\ Len(rendered) = Len(questions)
         /\ \A i \in Inst :
              rendered[i] # NoneResult =>
                 /\ Done(i)
                 /\ rendered[i] = call[i].result
                 /\ rendered[i].tikz_code = questions[i]
                 /\ rendered[i].png_path \in {NoPath, i}
    /\ (mode = "parallel" /\ orch = "returned") =>
         \A i \in Inst : rendered[i] # NoneResult

\* two different instances completed in the reverse of their positions and
\* the list was returned
C1_Witness ==
    /\ mode = "parallel"
    /\ orch = "returned"
    /\ Len(questions) >= 2
    /\ questions[1] # questions[2]
    /\ completed[1] = 2

\* the messages of a compile log's failed attempts, in order
RECURSIVE CompileErrors(_)
CompileErrors(log) ==
    IF log = <<>> THEN <<>>
    ELSE (IF Head(log) = "ok" THEN <<>> ELSE <<CompileError(Head(log))>>)
         \o CompileErrors(Tail(log))

CompileMessages == {CompileError(o) : o \in CompileOutcomes \ {"ok"}}

IsCompileMessage(m) == m \in CompileMessages

\* a stage of the call gave up or rejected its output
StageFailed(c) ==
    \/ c.tex_file = NoFile
    \/ c.pdf_file = NoFile
    \/ ~c.png.exists
    \/ ~validate_final_png(c.png).valid

\* C2: render never lets an exception escape: every call of render ends by
\* returning its record, in which success is false exactly when a stage
\* failed, and then errors ends with the "Pipeline failed" entry and holds
\* the message of every failed compiler attempt, in order.
C2_RenderAlwaysReturns ==
    \A i \in Inst :
        /\ call[i].pc # "raised"
        /\ (Done(i) /\ call[i].render_calls = 1) =>
             LET c == call[i] IN
             /\ c.result # NoneResult
             /\ c.result.success = c.success
             /\ c.success = ~StageFailed(c)
             /\ SelectSeq(c.errors, IsCompileMessage) = CompileErrors(c.compile_log)
             /\ ~c.success =>
                  /\ c.errors # <<>>
                  /\ c.errors[Len(c.errors)] \in
                       {"Pipeline failed: Failed to create TEX file",
                        "Pipeline failed: Tectonic compilation failed",
                        "Pipeline failed: PDF to PNG conversion failed",
                        "Pipeline failed: Final PNG validation failed"}

\* a call that met a timeout, a launch failure and a non-zero exit returned
C2_Witness ==
    \E i \in Inst :
        /\ Done(i)
        /\ call[i].compile_log = <<"timeout", "exec_error", "nonzero">>
        /\ ~call[i].result.success

\* the instances whose compile calls are in flight
InFlight(i) == call[i].pc \in {"write_tex", "compile", "raster", "png_validate", "finally"}

\* C3: two compiles in flight at the same time never have the same
\* embedded-document file name.
C3_UniqueScratchNames ==
    \A i, j \in Inst :
        (i # j /\ InFlight(i) /\ InFlight(j)
              /\ call[i].tex_file # NoFile /\ call[j].tex_file # NoFile)
            => call[i].tex_file # call[j].tex_file

\* C4: render, called by itself on a source whose '{' and '}' counts differ,
\* returns success = false without ever running the compiler.
C4_UnbalancedNeverCompiled ==
    \A i \in Inst :
        (mode = "direct" /\ Count(questions[i], "{") # Count(questions[i], "}"))
            => /\ call[i].tectonic_runs = 0
               /\ Done(i) => ~call[i].result.success

\* the source holds a directive of the validator's deny-list
HasDenied(s) == \E p \in ValidatorForbidden : Contains(s, p)

SanitationMessages ==
    {"TikZ code is empty or too short", "Mismatched braces in TikZ code",
     "Mismatched brackets in TikZ code", "Forbidden pattern detected",
     "No TikZ drawing commands found"}

\* C5: in a Pipeline run a source that holds a deny-listed directive is never
\* written to the scratch directory and never compiled: render is not called
\* for it, and its RenderedDiagram is a failed one carrying a sanitation
\* message.
C5_DeniedNeverCompiled ==
    /\ \A f \in scratch : ~HasDenied(f.src)
    /\ \A i \in Inst :
         (mode # "direct" /\ HasDenied(questions[i])) =>
            /\ call[i].render_calls = 0
            /\ call[i].tectonic_runs = 0
            /\ call[i].created = {}
            /\ Done(i) =>
                 /\ ~call[i].result.success
                 /\ call[i].result.png_path = NoPath
                 /\ ~call[i].result.error_message.is_none
                 /\ \E m \in SanitationMessages :
                       call[i].result.error_message.text = <<m>>

\* a drawing that is well-formed but for a file inclusion was rejected
C5_Witness ==
    \E i \in Inst :
        /\ Done(i)
        /\ questions[i] = <<Draw, Input>>
        /\ call[i].result.error_message.text = <<"Forbidden pattern detected">>

\* the compiler failed by exit code or timeout on every attempt of the log
\* but the last, which it passed with an artifact
FailedThenOk(log) ==
    /\ log # <<>>
    /\ log[Len(log)] = "ok"
    /\ \A k \in 1..(Len(log) - 1) : log[k] \in {"nonzero", "timeout"}

\* the call has left the external-compilation stage
PastCompile(c) ==
    c.tex_file # NoFile /\ c.pc \in {"raster", "png_validate", "finally", "done"}

\* C6: a compiler that fails k < max_retries times by exit code or timeout
\* and then succeeds is invoked exactly k + 1 times, the stage succeeds and
\* the call goes on to rasterization; the stage gives up only after
\* max_retries invocations; and a call whose compiler failed twice and then
\* succeeded returns success = true when rasterization and validation
\* succeed.
C6_RetryUntilSuccess ==
    \A i \in Inst :
        LET c == call[i]
            log == c.compile_log
        IN
        /\ Len(log) <= max_retries
        /\ c.tectonic_runs = Len(log)
        /\ FailedThenOk(log) =>
             /\ PastCompile(c)
             /\ c.pdf_file # NoFile
             /\ c.tectonic_runs = Len(log)
             /\ \E k \in 1..Len(c.steps_completed) :
                   c.steps_completed[k] = "tectonic_compilation"
        /\ (PastCompile(c) /\ c.pdf_file = NoFile) => c.tectonic_runs = max_retries
        /\ (Done(i) /\ FailedThenOk(log) /\ c.png.exists
              /\ validate_final_png(c.png).valid) => c.result.success

\* with max_retries = 3 the compiler failed twice, then succeeded, and the
\* call returned success = true
C6_Witness ==
    \E i \in Inst :
        /\ Done(i)
        /\ max_retries = 3
        /\ call[i].compile_log = <<"nonzero", "timeout", "ok">>
        /\ call[i].tectonic_runs = 3
        /\ call[i].result.success

\* every attempt of the log ended with exit code zero and an empty artifact
AllEmpty(log) == log # <<>> /\ \A k \in 1..Len(log) : log[k] = "empty"

\* the messages of the renderer that contain the word "empty"
MentionsEmpty(m) == m \in {"PDF created but empty", "PNG file is empty"}

\* C7: when every compiler attempt exits zero and leaves a zero-length
\* artifact, render runs the compiler exactly max_retries times, never runs
\* the rasterizer and returns success = false with an error mentioning
\* "empty".
C7_EmptyArtifactExhaustsRetries ==
    \A i \in Inst :
        (Done(i) /\ AllEmpty(call[i].compile_log)) =>
            /\ call[i].tectonic_runs = max_retries
            /\ call[i].raster_runs = 0
            /\ ~call[i].success
            /\ ~call[i].result.success
            /\ \E k \in 1..Len(call[i].errors) : MentionsEmpty(call[i].errors[k])

C7_Witness ==
    \E i \in Inst :
        /\ Done(i)
        /\ call[i].compile_log = <<"empty", "empty", "empty">>
        /\ call[i].errors[Len(call[i].errors)] =
              "Pipeline failed: Tectonic compilation failed"

\* C8: render returns success = true only for an image that has no zero
\* dimension, does not exceed the maximum size and has an accepted colour
\* mode.
C8_DefectiveImageNeverSucceeds ==
    \A i \in Inst :
        (Done(i) /\ call[i].success) =>
            /\ call[i].png.width # 0
            /\ call[i].png.mb <= MaxPngMB
            /\ call[i].png.mode \in AcceptedModes

\* C9: with keep_intermediate false, once render has returned and no
\* deletion failed, no .tex or .pdf file the call created is left in the
\* scratch directory.
C9_NoScratchFileLeft ==
    \A i \in Inst :
        (Done(i) /\ ~keep_intermediate /\ ~call[i].unlink_failed) =>
            \A f \in scratch : <<f.name, f.ext>> \notin call[i].created

\* C10: _render_single_diagram is called at most once per Question Instance,
\* and render at most once per call of it; when _render_diagrams returns,
\* sequentially or through the pool, every instance has had exactly one call.
C10_OneCompilePerInstance ==
    \A i \in Inst :
        /\ call[i].single_calls <= 1
        /\ call[i].render_calls <= call[i].single_calls
        /\ orch = "returned" => call[i].single_calls = 1

\* a run returned with an instance whose one compile failed inside render
C10_Witness ==
    /\ orch = "returned"
    /\ \E i \in Inst :
         /\ call[i].render_calls = 1
         /\ ~call[i].result.success
         /\ rendered[i] = call[i].result

\* -------------------------------------------------- the run specification

\* the renderer and _render_diagrams at rest
RenderIdle ==
    /\ questions = <<>>
    /\ mode = "idle"
    /\ max_retries = DefaultMaxRetries
    /\ keep_intermediate = FALSE
    /\ clock = 0
    /\ scratch = {}
    /\ call = <<>>
    /\ completed = <<>>
    /\ rendered = <<>>
    /\ orch = "idle"

\* num_patterns as the callers of run pass it
RequestedCounts == {2, 10}

\* open()/json.dump and doc.build succeed or raise
StorageOutcomes == {"ok", "error"}
BuildOutcomes == {"ok", "error"}

\* One Pipeline.run per topic, with diagram rendering as one step per Pattern.
InitRun ==
    \E topic \in Topics, requested \in RequestedCounts, v \in BOOLEAN :
        /\ run = NewRun(topic, requested, v)
        /\ llm = IdleLlm
        /\ val = IdleVal
        /\ pool = IdlePool
        /\ RenderIdle

NextRun ==
    \/ GeneratePatterns
    \/ SavePatterns(StorageOutcomes)
    \/ GenerateQuestions
    \/ SaveQuestions(StorageOutcomes)
    \/ RenderDiagrams
    \/ BuildPdf(BuildOutcomes)
    \/ SaveManifest(StorageOutcomes)

SpecRun == InitRun /\ [][NextRun]_vars

\* --------------------------------------------------------------------- C11

\* C11: a failure confined to one Pattern (its question generation or its
\* document assembly) does not abort Pipeline.run: the run raises only when
\* no Patterns were obtained or a storage write failed.
C11_PatternFailureContained ==
    run.pc = "raised" => run.error \in {"patterns", "storage"}

\* --------------------------------------------------------------------- C12

Returned == run.pc = "returned"

\* C12: the returned manifest has, for every Question Instance of every
\* Pattern, exactly one entry, in instance order, that tells whether the
\* diagram rendered and, when it did not, carries the error string.
C12_ManifestCarriesRenderOutcome ==
    Returned =>
        /\ Len(run.manifest.pdfs) = Len(run.all_question_sets)
        /\ \A p \in 1..Len(run.all_question_sets) :
               LET pages == run.manifest.pdfs[p].pages
                   question_set == run.all_question_sets[p]
               IN  /\ Len(pages) = Len(question_set)
                   /\ \A i \in 1..Len(question_set) :
                          LET diagram == run.all_rendered_diagrams[p][i]
                          IN  /\ pages[i].question_id = question_set[i].instance_id
                              /\ (pages[i].image_path # NoPath) = diagram.success
                              /\ ~diagram.success =>
                                     /\ "error_message" \in DOMAIN pages[i]
                                     /\ pages[i].error_message = diagram.error_message

\* --------------------------------------------------------------------- C13

RECURSIVE TotalLen(_)
TotalLen(lists) ==
    IF lists = <<>> THEN 0 ELSE Len(Head(lists)) + TotalLen(Tail(lists))

\* C13: in the returned manifest total_patterns is the number of Patterns
\* generated and total_questions the number of Question Instances generated
\* over all Patterns, whatever num_patterns was requested.
C13_TotalsAreActualCounts ==
    Returned =>
        /\ run.manifest.total_patterns = Len(run.patterns)
        /\ run.manifest.total_patterns = Len(run.all_question_sets)
        /\ run.manifest.total_questions = TotalLen(run.all_question_sets)

\* a run asked for 2 patterns returned a manifest
C13_Witness ==
    /\ Returned
    /\ run.requested = 2
    /\ run.manifest.total_questions = TotalLen(run.all_question_sets)
    /\ Len(run.all_question_sets) > run.requested

\* --------------------------------------------------------------------- C14

\* the instance as its generator built it
AsGenerated(p, i) == MockQuestion(run.patterns[p], i - 1)

\* C14: rendering leaves every Question Instance unchanged, whether its
\* diagram rendered or not: after rendering, an instance differs from the
\* one its generator built at most in the solvability status, which is the
\* heuristic's result when the configuration asks for the check.
C14_RenderingLeavesInstancesUnchanged ==
    \A p \in 1..Len(run.all_question_sets) :
        \A i \in 1..Len(run.all_question_sets[p]) :
            run.all_question_sets[p][i] =
                [AsGenerated(p, i) EXCEPT
                    !.solvability_check =
                        IF run.validate_solvability THEN check(AsGenerated(p, i))
                        ELSE AsGenerated(p, i).solvability_check]

\* a Pattern was rendered, one diagram failed, and the failed instance
\* keeps the status the heuristic computed
C14_Witness ==
    \E p \in 1..Len(run.all_rendered_diagrams) :
        \E i \in 1..Len(run.all_question_sets[p]) :
            /\ ~run.all_rendered_diagrams[p][i].success
            /\ run.validate_solvability
            /\ run.all_question_sets[p][i].solvability_check = "valid"

\* ------------------------------------- the response-processing specification

\* "key": "content"
StringField(key, content) == <<QT, key, QT, COLON, SP, QT>> \o content \o <<QT>>

\* "id": 1
IdField == <<QT, ID, QT, COLON, SP, "1">>

\* a record without a diagram, and records with one: the tikz_code field
\* after the id or before it
PlainRecord == <<LC>> \o IdField \o <<RC>>
TikzRecord(content) ==
    <<LC>> \o IdField \o <<COMMA, SP>> \o StringField(TIKZ, content) \o <<RC>>
TikzFirstRecord(content) ==
    <<LC>> \o StringField(TIKZ, content) \o <<COMMA, SP>> \o IdField \o <<RC>>

\* the characters between the quotes of a tikz_code value: plain, with
\* escaped backslashes, with unescaped backslashes (one, two), with braces,
\* with a comma
PlainContents == {<<"d">>}
EscapedContents == {<<BS, BS, "d">>}
UnescapedContents == {<<BS, "d">>, <<BS, "d", BS, "d">>}
BraceContents == {<<LC, "d", RC>>}
CommaContents == {<<"d", COMMA, "d">>}
WellFormedContents ==
    PlainContents \cup EscapedContents \cup BraceContents \cup CommaContents

WellFormedRecords ==
    {PlainRecord} \cup {TikzRecord(c) : c \in WellFormedContents}
        \cup {TikzFirstRecord(c) : c \in PlainContents}

UnescapedRecords == {TikzRecord(c) : c \in UnescapedContents}

RECURSIVE Join(_, _)
Join(items, sep) ==
    IF items = <<>> THEN <<>>
    ELSE IF Len(items) = 1 THEN items[1]
    ELSE items[1] \o sep \o Join(Tail(items), sep)

Array(records) == <<LB>> \o Join(records, <<COMMA, SP>>) \o <<RB>>

\* well-formed documents whose top level is an array
WellFormedArrays == {Array(rs) : rs \in SeqsUpTo(WellFormedRecords, MaxRecords)}

\* arrays well-formed except for the unescaped backslashes of one record
UnescapedArrays ==
    {Array(rs \o <<u>>) : rs \in SeqsUpTo({PlainRecord}, MaxRecords - 1),
                          u \in UnescapedRecords}

\* well-formed documents whose top level is not an array
NonArrays == {PlainRecord, <<"1">>, <<QT, "d", QT>>}

\* a document inside a markdown fence, and after a line of prose
Fenced(document) == <<FENCE, JSONWORD, NL>> \o document \o <<NL, FENCE>>
Prosed(document) == <<PROSE, COLON, NL>> \o document

WrappedDocuments ==
    {Fenced(d) : d \in {Array(<<>>), Array(<<PlainRecord>>), <<>>}}
        \cup {Prosed(d) : d \in {Array(<<PlainRecord>>), Array(<<"1">>)}}

BlankTexts == {<<>>, <<SP>>, <<NL, SP, TAB>>}

\* mismatched brackets, a truncated array, a trailing comma, prose alone
MalformedTexts ==
    {<<LB, LC, RB>>, <<RB, LB>>, <<LB, LC, RC>>,
     <<LB>> \o PlainRecord,
     <<LB>> \o PlainRecord \o <<COMMA, RB>>,
     <<LB, LC>> \o IdField \o <<COMMA, SP, QT, TIKZ, QT, COLON, SP, QT, "d">>,
     <<PROSE, SP, "d">>}

RawTexts ==
    WellFormedArrays \cup UnescapedArrays \cup NonArrays \cup WrappedDocuments
        \cup BlankTexts \cup MalformedTexts

\* One process_llm_response per response text.
InitLlm ==
    /\ llm \in {NewLlm(raw) : raw \in RawTexts}
    /\ run = IdleRun
    /\ val = IdleVal
    /\ pool = IdlePool
    /\ RenderIdle

NextLlm ==
    \/ CleanAndExtract
    \/ CheckEmpty
    \/ FixLoop
    \/ ScanStep
    \/ Strategy1
    \/ Strategy2
    \/ Strategy3
    \/ Strategy4
    \/ Strategy5

SpecLlm == InitLlm /\ [][NextLlm]_vars

\* the call has ended
Finished == llm.pc \in {"returned", "raised"}

\* --------------------------------------------------------------------- C18

\* the raw text is empty or whitespace only
Blank(raw) == \A k \in 1..Len(raw) : raw[k] \in Whitespace

\* C18: a call with blank raw text never reaches the tikz fix or a parser,
\* and it ends by raising the empty-response error, with no parser tried and
\* nothing returned.
C18_BlankTextRaisesEmptyInput ==
    (llm.pc # "idle" /\ Blank(llm.raw)) =>
        /\ llm.pc \in {"clean", "parse", "raised"}
        /\ llm.strategies = <<>>
        /\ llm.result = NoValue
        /\ llm.pc = "raised" => llm.error = <<EmptyResponse>>

\* the call on a whitespace-only text has raised
C18_Witness ==
    /\ llm.pc = "raised"
    /\ llm.raw # <<>>
    /\ Blank(llm.raw)
    /\ llm.error = <<EmptyResponse>>

\* --------------------------------------------------------------------- C15

\* the raw text is a well-formed document whose top level is an array
WellFormedArray(raw) == json_loads(raw).ok /\ json_loads(raw).v.t = "arr"

\* a result obtained only after falling back past json.loads
Degraded == Len(llm.strategies) > 1

\* C15: a call on a well-formed array ends by returning the records of that
\* array, as many and unaltered, from the first parser (not degraded),
\* records with a tikz_code field included.
C15_WellFormedArrayReturnedUnaltered ==
    (Finished /\ WellFormedArray(llm.raw)) =>
        /\ llm.pc = "returned"
        /\ ~Degraded
        /\ llm.result.t = "arr"
        /\ Len(llm.result.v) = Len(json_loads(llm.raw).v.v)
        /\ llm.result = json_loads(llm.raw).v

\* --------------------------------------------------------------------- C16

\* the raw text is an array that json.loads accepts once every backslash of
\* its tikz_code values is escaped, and not before
UnescapedBackslashes(raw) == raw \in UnescapedArrays

\* the raw text is a well-formed array whose backslashes are all escaped
EscapedBackslashes(raw) ==
    raw \in {Array(rs \o <<TikzRecord(c)>>) :
                rs \in SeqsUpTo({PlainRecord}, MaxRecords - 1), c \in EscapedContents}

\* how many times a token occurs in a text
Occurrences(text, token) == Cardinality({k \in 1..Len(text) : text[k] = token})

\* the call has left fix_tikz_json_parsing
Repaired == llm.pc \in {"strategy1", "strategy2", "strategy3", "strategy4",
                        "strategy5", "returned"}

\* C16, what it says of one call: a call on a text that is well-formed
\* except for unescaped backslashes in a tikz_code value, once ended, has
\* returned a degraded result; and the repair of a text whose backslashes
\* are already escaped adds no backslash to it.
C16_UnescapedBackslashesRecovered ==
    /\ (Finished /\ UnescapedBackslashes(llm.raw)) =>
           (llm.pc = "returned" /\ Degraded)
    /\ (Repaired /\ EscapedBackslashes(llm.raw)) =>
           Occurrences(llm.text, BS) = Occurrences(llm.raw, BS)

\* --------------------------------------------------------------------- C19

\* C19: the scan of fix_single_tikz_field reaches its end: the loop runs
\* while pos < len(text), so each of its passes either ends the scan or
\* moves pos forward, whatever the tikz_code value holds. (A pass reads
\* text[pos] and nothing else of the text: one that leaves pos where it was
\* is followed by the same pass again.)
C19_ScanPassEndsOrAdvances ==
    [][(llm.pc = "scan" /\ llm'.pc = "scan") => llm'.scan.pos > llm.scan.pos]_vars

\* --------------------------------------------------------------------- C17

\* the number of records in a value: the elements of an array, and none in
\* any other value
RecordCount(value) == IF value.t = "arr" THEN Len(value.v) ELSE 0

\* C17: a call never returns a value without a record, and a call that
\* raises for a text that is not blank raises the invalid-response error
\* carrying the start of the raw text (every raw text here is shorter than
\* 500 characters, so its first 500 characters are the whole of it).
C17_NeverReturnsWithoutRecords ==
    /\ llm.pc = "returned" => RecordCount(llm.result) >= 1
    /\ (llm.pc = "raised" /\ ~Blank(llm.raw)) =>
           llm.error = <<InvalidResponse, llm.raw>>

\* --------------------------------------------------------------------- C20

\* the text that enters fix_tikz_json_parsing
Entered == extract_json_from_markdown(clean_response_text(llm.raw))

\* the 0-based position of the quote that closes the string value starting
\* at start_pos (no tikz_code value of a raw text here holds a quote)
ClosingQuote(text, start_pos) == Find(text, <<QT>>, start_pos)

\* C20: once the repair of a text with a tikz_code field is over, the text
\* up to the opening quote of the field is as it was, the text from the
\* closing quote on is as it was, and the key tikz_code occurs as often as
\* it did.
C20_RepairChangesOnlyTheValue ==
    (Repaired /\ TikzValueStart(Entered, 0) # -1
              /\ ClosingQuote(Entered, TikzValueStart(Entered, 0)) # -1) =>
        /\ Slice(llm.text, 0, TikzValueStart(Entered, 0))
               = Slice(Entered, 0, TikzValueStart(Entered, 0))
        /\ EndsWith(llm.text,
                    Slice(Entered, ClosingQuote(Entered, TikzValueStart(Entered, 0)),
                          Len(Entered)))
        /\ Occurrences(llm.text, TIKZ) = Occurrences(Entered, TIKZ)

\* --------------------------------------------------------------------- C21

\* the parsers of parse_json_response, in the order of the code
StrategyOrder == <<"json", "json5", "cleaning", "manual_fix", "reconstruction">>

\* C21: the strict parser is the first to run and it runs on the text as it
\* came: when json.loads is about to be applied, it gives on the text what
\* it gives on the raw text; the parsers run in their order, each after the
\* failure of the one before; and a call on a raw text that json.loads
\* accepts returns what json.loads makes of it.
C21_StrictParseFirstOnVerbatimText ==
    /\ llm.pc = "strategy1" => json_loads(llm.text) = json_loads(llm.raw)
    /\ llm.pc # "idle" =>
           llm.strategies = SubSeq(StrategyOrder, 1, Len(llm.strategies))
    /\ (Finished /\ json_loads(llm.raw).ok) =>
           (llm.pc = "returned" /\ llm.result = json_loads(llm.raw).v)

\* ----------------------------------------------------------- the validators

\* A call of SolvabilityChecker.check on a Question.
NewCheck(question) ==
    [pc |-> "check", question |-> question, status |-> "pending"]

\* SolvabilityChecker.check, lines 113-158
SolvabilityCheck ==
    /\ val.pc = "check"
    /\ val' = [val EXCEPT !.pc = "checked", !.status = check(val.question)]
    /\ UNCHANGED <<pool, run, llm, render_vars>>

\* the answers, question texts and variables of the Questions checked
Answers ==
    {<<>>, <<SP>>, <<"7">>, <<SP, "7", SP>>, <<"7", "7">>, <<"x", "=", "7">>,
     <<"unknown">>, <<"Unknown">>, <<SP, "N/A">>, <<"n/a">>}

QuestionTexts == {<<>>, <<SP>>, <<"Find", SP, "x">>}

VariableSets == {{}, {"x"}}

CheckedQuestions ==
    {[instance_id |-> 0, pattern_id |-> 0, question_text |-> text,
      correct_answer |-> answer, tikz_code |-> GoodSource,
      solvability_check |-> "pending", variables |-> variables] :
        text \in QuestionTexts, answer \in Answers, variables \in VariableSets}

\* minimum lengths of validate_questions after strip(): question text,
\* answer (the diagram source has MinTikzLen)
MinQuestionTextLen == 10
MinAnswerLen == 1

\* the defects validate_questions reports for one question, lines 315-344,
\* given the instance_ids seen before it
QuestionDefects(question, pattern_id, instance_ids) ==
    (IF question.instance_id \in instance_ids
     THEN <<<<"duplicate", question.instance_id>>>> ELSE <<>>)
    \o (IF question.pattern_id # pattern_id
        THEN <<<<"pattern_id", question.instance_id>>>> ELSE <<>>)
    \o (IF question.question_text = <<>>
           \/ StrLen(Strip(question.question_text)) < MinQuestionTextLen
        THEN <<<<"question_text", question.instance_id>>>> ELSE <<>>)
    \o (IF question.correct_answer = <<>>
           \/ StrLen(Strip(question.correct_answer)) < MinAnswerLen
        THEN <<<<"correct_answer", question.instance_id>>>> ELSE <<>>)
    \o (IF question.tikz_code = <<>>
           \/ StrLen(Strip(question.tikz_code)) < MinTikzLen
        THEN <<<<"tikz_code", question.instance_id>>>> ELSE <<>>)

\* the loop of validate_questions, lines 314-344
RECURSIVE ValidateLoop(_, _, _)
ValidateLoop(qs, pattern_id, instance_ids) ==
    IF qs = <<>> THEN <<>>
    ELSE QuestionDefects(Head(qs), pattern_id, instance_ids)
         \o ValidateLoop(Tail(qs), pattern_id,
                         instance_ids \cup {Head(qs).instance_id})

\* validate_questions that does not look for duplicated instance_ids
validate_questions_no_duplicates(question_set) ==
    (IF Len(question_set.questions) # QUESTIONS_PER_PATTERN
     THEN <<<<"count">>>> ELSE <<>>)
    \o ValidateLoop([k \in 1..Len(question_set.questions) |->
                        [question_set.questions[k] EXCEPT !.instance_id = -k]],
                    question_set.pattern_id, {})

\* QuestionGenerator.validate_questions: the list of errors
validate_questions(question_set) ==
    (IF Len(question_set.questions) # QUESTIONS_PER_PATTERN
     THEN <<<<"count">>>> ELSE <<>>)
    \o ValidateLoop(question_set.questions, question_set.pattern_id, {})

\* A call of Pipeline._generate_questions, after QuestionGenerator.generate
\* has returned question_set; validate_solvability is the configuration's.
NewValidate(question_set, validate_solvability) ==
    [pc |-> "validate", question_set |-> question_set,
     validate_solvability |-> validate_solvability, errors |-> <<>>,
     returned |-> <<>>]

\* Pipeline._generate_questions, lines 194-209: the errors are logged, the
\* solvability status of each question is set when the configuration asks
\* for it, and the question set is returned
ValidateQuestions ==
    /\ val.pc = "validate"
    /\ val' = [val EXCEPT
                  !.pc = "validated",
                  !.errors = validate_questions(val.question_set),
                  !.returned =
                      [k \in 1..Len(val.question_set.questions) |->
                          IF val.validate_solvability
                          THEN [val.question_set.questions[k] EXCEPT
                                   !.solvability_check =
                                       check(val.question_set.questions[k])]
                          ELSE val.question_set.questions[k]]]
    /\ UNCHANGED <<pool, run, llm, render_vars>>

\* FORBIDDEN_TIKZ_PATTERNS of config.py, as far as a diagram source made of
\* Tokens can hold one: "usepackage"
TikzForbidden == {UsePackage}

\* TikZValidator.validate that compares the patterns with the source as
\* written
TikZValidator_validate_case_sensitive(tikz_code) ==
    IF tikz_code = <<>> \/ StrLen(Strip(tikz_code)) < MinTikzLen
    THEN [ok |-> FALSE, message |-> Message(<<"TikZ code is empty or too short">>)]
    ELSE IF \E pattern \in TikzForbidden : Contains(tikz_code, pattern)
    THEN [ok |-> FALSE, message |-> Message(<<"Forbidden pattern detected">>)]
    ELSE IF Count(tikz_code, "{") # Count(tikz_code, "}")
    THEN [ok |-> FALSE, message |-> Message(<<"Mismatched braces in TikZ code">>)]
    ELSE [ok |-> TRUE, message |-> NoneMessage]

\* TikZValidator.validate of tikz_renderer.py: (is_valid, error_message)
TikZValidator_validate(tikz_code) ==
    IF tikz_code = <<>> \/ StrLen(Strip(tikz_code)) < MinTikzLen
    THEN [ok |-> FALSE, message |-> Message(<<"TikZ code is empty or too short">>)]
    ELSE IF \E pattern \in TikzForbidden :
                Contains(Lower(tikz_code), LowerTok(pattern))
    THEN [ok |-> FALSE, message |-> Message(<<"Forbidden pattern detected">>)]
    ELSE IF Count(tikz_code, "{") # Count(tikz_code, "}")
    THEN [ok |-> FALSE, message |-> Message(<<"Mismatched braces in TikZ code">>)]
    ELSE [ok |-> TRUE, message |-> NoneMessage]

\* A call of TikZValidator.validate.
NewTikzValidate(tikz_code) ==
    [pc |-> "tikz", tikz_code |-> tikz_code,
     result |-> [ok |-> FALSE, message |-> NoneMessage]]

\* TikZValidator.validate, lines 343-368
TikzValidate ==
    /\ val.pc = "tikz"
    /\ val' = [val EXCEPT !.pc = "tikz_validated",
                          !.result = TikZValidator_validate(val.tikz_code)]
    /\ UNCHANGED <<pool, run, llm, render_vars>>

\* the diagram sources given to TikZValidator.validate
ValidatedSources == SeqsUpTo(Tokens \cup {UsePackageUpper, "]"}, MaxSrcLen)

\* the questions of the batches given to validate_questions: good fields or
\* one field too short, under two instance_ids and two pattern_ids
LongText == <<"Find", SP, "Find", SP, "x">>

BatchQuestions ==
    {[instance_id |-> id, pattern_id |-> pattern_id, question_text |-> f[1],
      correct_answer |-> f[2], tikz_code |-> f[3],
      solvability_check |-> "pending", variables |-> {"x"}] :
        id \in {0, 1}, pattern_id \in {0, 1},
        f \in {<<LongText, <<"7">>, GoodSource>>,
               <<<<"Find", SP, "x">>, <<"7">>, GoodSource>>,
               <<LongText, <<SP>>, GoodSource>>,
               <<LongText, <<"7">>, ShortSource>>,
               <<<<>>, <<>>, <<>>>>}}

Batches ==
    {[pattern_id |-> 0, questions |-> qs] : qs \in SeqsUpTo(BatchQuestions, MaxQ)}

\* One call of a validator: SolvabilityChecker.check on a Question,
\* _generate_questions on a batch, or TikZValidator.validate on a diagram
\* source.
InitVal ==
    /\ val \in {NewCheck(q) : q \in CheckedQuestions}
               \cup {NewValidate(b, v) : b \in Batches, v \in BOOLEAN}
               \cup {NewTikzValidate(s) : s \in ValidatedSources}
    /\ run = IdleRun
    /\ llm = IdleLlm
    /\ pool = IdlePool
    /\ RenderIdle

NextVal ==
    \/ SolvabilityCheck
    \/ ValidateQuestions
    \/ TikzValidate

SpecVal == InitVal /\ [][NextVal]_vars

\* ------------------------------------- the rendering loop in parallel mode

\* Pipeline.run from line 119 on, with config.parallel_rendering set: P
\* question sets of n Question Instances each. task[k][i] is the state of the
\* future submitted for instance i of Pattern k, rendered[k][i] tells whether
\* rendered[i] of the call of _render_diagrams_parallel for Pattern k has
\* been assigned.
NewPool(P, n) ==
    [pc |-> "render",
     patterns |-> P,
     n |-> n,
     pattern_idx |-> 0,
     task |-> [k \in 1..P |-> [i \in 1..n |-> "new"]],
     rendered |-> [k \in 1..P |-> [i \in 1..n |-> FALSE]],
     all_rendered_diagrams |-> 0,
     all_pdfs |-> 0]

PoolInst == IF pool = IdlePool THEN {} ELSE 1..pool.n

PoolPatterns == IF pool = IdlePool THEN {} ELSE 1..pool.patterns

\* the Pattern whose question set the rendering loop is at
CurrentPattern == pool.pattern_idx + 1

\* run, lines 122-123, _render_diagrams and lines 252-254 of
\* _render_diagrams_parallel: the list of None is built and the executor
\* created
PoolRenderDiagrams ==
    /\ pool # IdlePool
    /\ pool.pc = "render"
    /\ pool' = [pool EXCEPT !.pc = "pool"]
    /\ UNCHANGED <<val, run, llm, render_vars>>

\* lines 255-260: executor.submit for the next question of the set
PoolSubmit(i) ==
    /\ pool # IdlePool
    /\ pool.pc = "pool"
    /\ pool.task[CurrentPattern][i] = "new"
    /\ \A j \in 1..(i - 1) : pool.task[CurrentPattern][j] # "new"
    /\ pool' = [pool EXCEPT !.task[CurrentPattern][i] = "queued"]
    /\ UNCHANGED <<val, run, llm, render_vars>>

\* a free thread of the executor of Pattern k takes its oldest queued future
PoolWorkerPick(k, i) ==
    /\ pool # IdlePool
    /\ pool.task[k][i] = "queued"
    /\ \A j \in 1..(i - 1) : pool.task[k][j] # "queued"
    /\ Cardinality({j \in PoolInst : pool.task[k][j] = "running"}) < max_workers
    /\ pool' = [pool EXCEPT !.task[k][i] = "running"]
    /\ UNCHANGED <<val, run, llm, render_vars>>

\* _render_single_diagram returns in its thread
PoolWorkerDone(k, i) ==
    /\ pool # IdlePool
    /\ pool.task[k][i] = "running"
    /\ pool' = [pool EXCEPT !.task[k][i] = "done"]
    /\ UNCHANGED <<val, run, llm, render_vars>>

\* lines 262-264: as_completed yields a finished future, rendered[idx] is
\* assigned
PoolCollect(i) ==
    /\ pool # IdlePool
    /\ pool.pc = "pool"
    /\ \A j \in PoolInst : pool.task[CurrentPattern][j] # "new"
    /\ pool.task[CurrentPattern][i] = "done"
    /\ ~pool.rendered[CurrentPattern][i]
    /\ pool' = [pool EXCEPT !.rendered[CurrentPattern][i] = TRUE]
    /\ UNCHANGED <<val, run, llm, render_vars>>

\* the list is returned to run and appended
PoolReturned ==
    [pool EXCEPT !.all_rendered_diagrams = @ + 1,
                 !.pattern_idx = @ + 1,
                 !.pc = IF CurrentPattern = pool.patterns THEN "build" ELSE "render"]

\* the call returns once one future was yielded and the executor does not
\* wait for the others
PoolReturnEarly ==
    /\ pool # IdlePool
    /\ pool.pc = "pool"
    /\ \E i \in PoolInst : pool.rendered[CurrentPattern][i]
    /\ pool' = PoolReturned
    /\ UNCHANGED <<val, run, llm, render_vars>>

\* lines 262-266 and run line 124: as_completed has yielded every future,
\* the with block has shut the executor down, the list is returned
PoolReturn ==
    /\ pool # IdlePool
    /\ pool.pc = "pool"
    /\ \A i \in PoolInst : pool.rendered[CurrentPattern][i]
    /\ pool' = PoolReturned
    /\ UNCHANGED <<val, run, llm, render_vars>>

\* run, lines 129-137: one pass of the assembly loop
PoolBuildPdf ==
    /\ pool # IdlePool
    /\ pool.pc = "build"
    /\ pool' = [pool EXCEPT !.all_pdfs = @ + 1,
                            !.pc = IF pool.all_pdfs + 1 = pool.patterns
                                   THEN "returned" ELSE "build"]
    /\ UNCHANGED <<val, run, llm, render_vars>>

\* The rendering and assembly loops of one run in parallel mode, over at most
\* MaxPoolPatterns Patterns of at most MaxPoolQ Question Instances each.
InitPool ==
    /\ pool \in {NewPool(P, n) : P \in 1..MaxPoolPatterns, n \in 1..MaxPoolQ}
    /\ val = IdleVal
    /\ run = IdleRun
    /\ llm = IdleLlm
    /\ RenderIdle

NextPool ==
    \/ PoolRenderDiagrams
    \/ \E i \in PoolInst : PoolSubmit(i)
    \/ \E k \in PoolPatterns, i \in PoolInst : PoolWorkerPick(k, i)
    \/ \E k \in PoolPatterns, i \in PoolInst : PoolWorkerDone(k, i)
    \/ \E i \in PoolInst : PoolCollect(i)
    \/ PoolReturn
    \/ PoolBuildPdf

SpecPool == InitPool /\ [][NextPool]_vars

\* --------------------------------------------------------------------- C27

\* the compile calls in flight: Pattern and position
PoolInFlight ==
    {<<k, i>> \in PoolPatterns \X PoolInst : pool.task[k][i] = "running"}

\* every compile of Pattern k has completed and its result is stored
PatternRendered(k) ==
    \A i \in PoolInst : pool.task[k][i] = "done" /\ pool.rendered[k][i]

\* C27: in parallel mode at most 4 compile calls are in flight, all of them
\* of the Pattern the rendering loop is at; no compile of a later Pattern has
\* been submitted and every compile of an earlier Pattern has completed; and
\* document assembly starts only after the compiles of all Patterns have
\* completed.
C27_OnePatternAtATime ==
    pool # IdlePool =>
        /\ Cardinality(PoolInFlight) <= 4
        /\ \A t \in PoolInFlight : t[1] = CurrentPattern /\ pool.pc = "pool"
        /\ \A k \in PoolPatterns :
              /\ k > CurrentPattern => \A i \in PoolInst : pool.task[k][i] = "new"
              /\ k < CurrentPattern => PatternRendered(k)
        /\ (pool.pc \in {"build", "returned"} \/ pool.all_pdfs > 0) =>
              /\ pool.all_rendered_diagrams = pool.patterns
              /\ \A k \in PoolPatterns : PatternRendered(k)

\* the second Pattern has four compiles in flight and a fifth one waiting,
\* after every compile of the first Pattern completed
C27_Witness ==
    /\ pool # IdlePool
    /\ pool.n > 4
    /\ CurrentPattern = 2
    /\ Cardinality(PoolInFlight) = 4
    /\ \E i \in PoolInst : pool.task[2][i] = "queued"
    /\ PatternRendered(1)

\* --------------------------------------------------------------------- C22

\* the answer is empty, a placeholder or shorter than 2 characters, once
\* trimmed
UnusableAnswer(answer) ==
    LET trimmed == Strip(answer)
    IN  \/ trimmed = <<>>
        \/ trimmed \in {<<"unknown">>, <<"Unknown">>, <<"n/a">>, <<"N/A">>}
        \/ StrLen(trimmed) < 2

\* SolvabilityChecker.check has returned
Checked == val.pc = "checked"

\* C22 as stated: the status is "invalid" exactly for a Question with an
\* unusable answer and "valid" for every other one.
C22_InvalidExactlyForUnusableAnswer ==
    Checked =>
        /\ val.status \in {"valid", "invalid"}
        /\ val.status = "invalid" <=> UnusableAnswer(val.question.correct_answer)

\* C22 amended: the status is "invalid" exactly for a Question with an
\* unusable answer, a question text that is empty once trimmed, or no
\* variables; it is "valid" for every other one and never "pending".
C22_InvalidForAnswerTextOrVariables ==
    Checked =>
        /\ val.status \in {"valid", "invalid"}
        /\ val.status = "invalid" <=>
               \/ UnusableAnswer(val.question.correct_answer)
               \/ Strip(val.question.question_text) = <<>>
               \/ val.question.variables = {}

\* a Question with a usable answer and no variables has been checked
C22_Witness ==
    /\ Checked
    /\ ~UnusableAnswer(val.question.correct_answer)
    /\ val.question.variables = {}
    /\ val.status = "invalid"

\* --------------------------------------------------------------------- C23

\* _generate_questions has gone through the validation of the batch
Validated == val.pc = "validated"

\* how many defects of a kind were reported
DefectCount(kind) ==
    Cardinality({k \in 1..Len(val.errors) : val.errors[k][1] = kind})

\* how many questions of the batch satisfy a condition on their position
QuestionCount(Defective(_)) ==
    Cardinality({k \in 1..Len(val.question_set.questions) : Defective(k)})

\* a text is empty or shorter than min_len once trimmed
BelowMinimum(text, min_len) == StrLen(Strip(text)) < min_len

\* C23: validation reports one defect for every question whose instance_id
\* an earlier question of the batch has, for every question whose
\* pattern_id is not the batch's, and for every question text, answer and
\* diagram source below its minimum length; a call that has reached the
\* validation always comes out of it; and _generate_questions returns the
\* questions of the batch, in their order, changed in nothing but their
\* solvability status.
C23_ValidationIsAdvisory ==
    /\ val.pc = "validate" => ENABLED ValidateQuestions
    /\ Validated =>
           LET qs == val.question_set.questions
               Duplicated(k) == \E j \in 1..(k - 1) : qs[j].instance_id = qs[k].instance_id
               Mismatched(k) == qs[k].pattern_id # val.question_set.pattern_id
               ShortText(k) == BelowMinimum(qs[k].question_text, 10)
               ShortAnswer(k) == BelowMinimum(qs[k].correct_answer, 1)
               ShortSrc(k) == BelowMinimum(qs[k].tikz_code, 5)
           IN  /\ DefectCount("duplicate") = QuestionCount(Duplicated)
               /\ DefectCount("pattern_id") = QuestionCount(Mismatched)
               /\ DefectCount("question_text") = QuestionCount(ShortText)
               /\ DefectCount("correct_answer") = QuestionCount(ShortAnswer)
               /\ DefectCount("tikz_code") = QuestionCount(ShortSrc)
               /\ Len(val.returned) = Len(qs)
               /\ \A k \in 1..Len(qs) :
                      [val.returned[k] EXCEPT !.solvability_check = "pending"] = qs[k]

\* a batch with a duplicated instance_id and a diagram source too short has
\* been validated, the defects were reported, and the batch was returned with
\* its solvability statuses set
C23_Witness ==
    /\ Validated
    /\ DefectCount("duplicate") >= 1
    /\ DefectCount("tikz_code") >= 1
    /\ Len(val.returned) = 2
    /\ val.returned[1].solvability_check # "pending"

\* --------------------------------------------------------------------- C25

\* TikZValidator.validate has returned
TikzValidated == val.pc = "tikz_validated"

\* the source is at least 5 characters long once trimmed
LongEnough(src) == StrLen(Strip(src)) >= 5

\* the source holds a forbidden pattern, in upper or lower case
HoldsForbidden(src) ==
    \E k \in 1..Len(src) : src[k] \in {UsePackage, UsePackageUpper}

\* the source has as many "{" as "}"
BracesBalanced(src) ==
    Cardinality({k \in 1..Len(src) : src[k] = "{"})
        = Cardinality({k \in 1..Len(src) : src[k] = "}"})

\* C25: TikZValidator.validate returns (True, None) exactly for a source
\* that is long enough, holds no forbidden pattern and has balanced braces;
\* for every other source it returns False with a message, and the message
\* is about braces when unbalanced braces are the only defect.
C25_TikzValidatorAcceptsExactlyCleanSources ==
    TikzValidated =>
        LET src == val.tikz_code
            clean == LongEnough(src) /\ ~HoldsForbidden(src) /\ BracesBalanced(src)
        IN  /\ clean <=> val.result = [ok |-> TRUE, message |-> NoneMessage]
            /\ ~clean => (~val.result.ok /\ ~val.result.message.is_none)
            /\ (LongEnough(src) /\ ~HoldsForbidden(src) /\ ~BracesBalanced(src)) =>
                   val.result.message = Message(<<"Mismatched braces in TikZ code">>)

\* a source with a forbidden pattern in upper case has been rejected
C25_Witness ==
    /\ TikzValidated
    /\ \E k \in 1..Len(val.tikz_code) : val.tikz_code[k] = UsePackageUpper
    /\ BracesBalanced(val.tikz_code)
    /\ ~val.result.ok

\* --------------------------------------------------------------------- C24

\* the base delays of the stages, in tenths of a second
BaseDelays == {1, 2, 10}

\* the call of instance i waited after the k-th attempt of a stage, k times
\* a base delay
WaitedAfter(i, stage, k) ==
    \E n \in 1..Len(call[i].sleeps), base \in BaseDelays :
        call[i].sleeps[n] = <<stage, k, k * base>>

\* C24: in the compilation stage of every render call, each failed attempt
\* that is not the last one allowed is followed by a wait of k times a base
\* delay, k the number of the attempt, whatever the kind of the failure; and
\* in no stage is there a wait after the last attempt allowed.
C24_WaitBetweenAttempts ==
    \A i \in Inst :
        /\ \A k \in 1..Len(call[i].compile_log) :
               (call[i].compile_log[k] # "ok" /\ k < max_retries) =>
                   WaitedAfter(i, "compile", k)
        /\ \A n \in 1..Len(call[i].sleeps) : call[i].sleeps[n][2] < max_retries

\* --------------------------------------------------------------------- C26

\* the stages of render in the order of lines 111-147; 0 before the call
\* starts, 6 once it has left the stages
StageRank(pc) ==
    CASE pc = "render" -> 1
      [] pc = "write_tex" -> 2
      [] pc = "compile" -> 3
      [] pc = "raster" -> 4
      [] pc = "png_validate" -> 5
      [] pc \in {"finally", "done", "raised"} -> 6
      [] OTHER -> 0

\* one step of the call of instance i keeps the order of the stages
StageOrderKept(i) ==
    LET before == call[i]
        after == call'[i]
        a == StageRank(before.pc)
        b == StageRank(after.pc)
    IN
    /\ b >= a
    /\ (b > a /\ b <= 5) => b = a + 1
    /\ (a = 2 /\ b = 3) => after.tex_file # NoFile
    /\ (a = 3 /\ b = 4) =>
          /\ after.pdf_file # NoFile
          /\ after.compile_log[Len(after.compile_log)] = "ok"
    /\ (a = 4 /\ b = 5) => after.png.exists
    /\ a # 3 => after.tectonic_runs = before.tectonic_runs
    /\ a # 4 => after.raster_runs = before.raster_runs
    /\ after.tectonic_runs <= max_retries
    /\ after.raster_runs <= max_retries
    /\ (b >= 4 /\ after.pdf_file = NoFile) => after.raster_runs = 0

OwnFile(i, name, ext) == Exists(name, ext) /\ TheFile(name, ext).by = i

\* C28: when several instances are compiled through the shared renderer, the
\* embedded document a call is about to compile and the compiled artifact it
\* is about to rasterize are there and are the ones the call itself wrote
\* (none was overwritten or deleted by the call of another instance), and the
\* image written for an instance comes from that instance's own source.
C28_WorkersKeepToTheirOwnFiles ==
    mode = "parallel" =>
        \A i \in Inst :
            /\ call[i].pc = "compile" => OwnFile(i, call[i].tex_file, "tex")
            /\ call[i].pc = "raster" => OwnFile(i, call[i].pdf_file, "pdf")
            /\ call[i].png.exists => call[i].png.src = call[i].cleaned

\* --------------------------------------------------------------------- C29

\* error_message is a string that is not empty
NonEmptyMessage(d) == ~d.error_message.is_none /\ d.error_message.text # <<>>

\* C29: every RenderedDiagram _render_single_diagram returns has
\* success = false exactly when error_message is a non-empty string, and
\* success = true exactly when error_message is None and png_path is the
\* output image path, both for a source the validator rejected and for one
\* that reached the renderer.
C29_SuccessMatchesErrorMessage ==
    \A i \in Inst :
        (mode # "direct" /\ Done(i)) =>
            LET d == call[i].result
            IN  /\ ~d.success <=> NonEmptyMessage(d)
                /\ d.success <=> (d.error_message.is_none /\ d.png_path = i)
                /\ call[i].render_calls = 0 => (~d.success /\ d.png_path = NoPath)
                /\ call[i].render_calls = 1 => d.png_path = i

\* a source that reached the renderer and failed there, with its message
C29_Witness ==
    \E i \in Inst :
        /\ Done(i)
        /\ call[i].render_calls = 1
        /\ ~call[i].result.success
        /\ NonEmptyMessage(call[i].result)
        /\ call[i].result.png_path = i

\* --------------------------------------------------------------------- C30

\* C30: the render_time of the RenderedDiagram of an instance whose source
\* reached the renderer is the execution time render measured for that call,
\* the waits between its attempts included.
C30_RenderTimeIsExecutionTime ==
    \A i \in Inst :
        (mode # "direct" /\ Done(i) /\ call[i].render_calls = 1) =>
            call[i].result.render_time = call[i].execution_time

============================================================================
